---- MODULE Spec2Model ----
(***************************************************************************)
(* A model of aeptools: the in-memory project model (aep/aep.py), the      *)
(* binary codec for the x86 and x64 dialects (aep/bin.py) and the JSON     *)
(* codec (aep/json.py).                                                    *)
(*                                                                         *)
(* Representation.                                                         *)
(*  - A byte is an integer 0..255 and a file or buffer a sequence of       *)
(*    bytes; file offsets are 0-based as in the code, sequence indexes     *)
(*    1-based.                                                             *)
(*  - A Python str is the sequence of its character codes.                 *)
(*  - Optional[T]: None is <<>> and a value v is <<v>>.                    *)
(*  - A Python object is the record of its attributes.                     *)
(*  - A float is a scaled integer: the model value v stands for the float  *)
(*    v / 100 (F32Table lists the floats the model packs and unpacks).     *)
(*  - A raised exception is its class name in an `err` field; "" means     *)
(*    that nothing was raised.                                             *)
(***************************************************************************)
EXTENDS Integers, Sequences, FiniteSets, TLC

--------------------------------------------------------------------------
(* Bounds of the explored inputs *)

MaxTextures == 2
MaxCompositions == 1
MaxLayers == 1

--------------------------------------------------------------------------
(* Generic helpers *)

None == <<>>
Some(v) == <<v>>
IsNone(o) == o = <<>>
Value(o) == o[1]

Range(s) == { s[i] : i \in 1..Len(s) }

(* the values of a dict *)
Values(f) == { f[k] : k \in DOMAIN f }

Min(a, b) == IF a < b THEN a ELSE b

RECURSIVE Pow(_, _)
Pow(b, e) == IF e = 0 THEN 1 ELSE b * Pow(b, e - 1)

Zeros(n) == [i \in 1..n |-> 0]

SeqsUpTo(S, n) == UNION { [1..k -> S] : k \in 0..n }

(* A local variable: body applied to the value an expression is evaluated
   to once *)
Let(value, body(_)) == body(value)

RECURSIVE Flatten(_)
Flatten(ss) == IF ss = <<>> THEN <<>> ELSE Head(ss) \o Flatten(Tail(ss))

(* characters *)
chr_hyphen == 45
chr_hash == 35

--------------------------------------------------------------------------
(* aep/aep.py: the model *)

LayerType == { "COMPOSITION", "COLOUR", "TEXTURE" }
BlendMode == { "NORMAL", "ADDITIVE", "UNKNOWN" }

Texture(name, width, height) ==
    [ name |-> name, width |-> width, height |-> height ]

Composition(name, width, height, layers) ==
    [ name |-> name, width |-> width, height |-> height, layers |-> layers ]

Layer(name, type, blend_mode, timeline, tracks) ==
    [ name |-> name,
      type |-> type,
      blend_mode |-> blend_mode,
      timeline_start |-> timeline[1],
      timeline_unknown1 |-> timeline[2],
      timeline_duration |-> timeline[3],
      timeline_unknown2 |-> timeline[4],
      position_keyframes |-> tracks[1],
      anchor_point_keyframes |-> tracks[2],
      colour_keyframes |-> tracks[3],
      scale_keyframes |-> tracks[4],
      alpha_keyframes |-> tracks[5],
      rotation_x_keyframes |-> tracks[6],
      rotation_y_keyframes |-> tracks[7],
      rotation_z_keyframes |-> tracks[8],
      size_keyframes |-> tracks[9],
      markers |-> tracks[10] ]

PositionKeyframe(frame, x, y, z) == [ frame |-> frame, x |-> x, y |-> y, z |-> z ]
AnchorPointKeyframe(frame, x, y, z) == [ frame |-> frame, x |-> x, y |-> y, z |-> z ]
ColourKeyframe(frame, r, g, b, a) == [ frame |-> frame, r |-> r, g |-> g, b |-> b, a |-> a ]
ScaleKeyframe(frame, x, y) == [ frame |-> frame, x |-> x, y |-> y ]
AlphaKeyframe(frame, value) == [ frame |-> frame, value |-> value ]
RotationKeyframe(frame, degrees) == [ frame |-> frame, degrees |-> degrees ]
SizeKeyframe(frame, width, height) == [ frame |-> frame, width |-> width, height |-> height ]
Marker(frame, unknown, name) == [ frame |-> frame, unknown |-> unknown, name |-> name ]

(* str.split(sep): the segments of s between the occurrences of sep *)
RECURSIVE split(_, _)
split(s, sep) ==
    IF sep \notin Range(s)
    THEN << s >>
    ELSE LET i == CHOOSE k \in 1..Len(s) :
                     s[k] = sep /\ \A j \in 1..(k - 1) : s[j] # sep
         IN  << SubSeq(s, 1, i - 1) >> \o split(SubSeq(s, i + 1, Len(s)), sep)

(* Layer.asset_name *)
asset_name(layer) ==
    IF chr_hyphen \in Range(layer.name)
    THEN split(layer.name, chr_hyphen)[2]
    ELSE layer.name

(* Variant of the validation that looks a reference up among the assets of
   both kinds *)
Project_init_AnyKind(textures, compositions) ==
    IF \E ci \in 1..Len(compositions) :
         \E li \in 1..Len(compositions[ci].layers) :
            LET layer == compositions[ci].layers[li] IN
              /\ layer.type \in { "TEXTURE", "COMPOSITION" }
              /\ ~ \E ti \in 1..Len(textures) :
                     textures[ti].name = asset_name(layer)
              /\ ~ \E cj \in 1..Len(compositions) :
                     compositions[cj].name = asset_name(layer)
    THEN "ValueError"
    ELSE ""

(* Project.__init__: "ValueError" when a texture or composition layer
   references no asset of that kind, "" when the project is constructed *)
Project_init(textures, compositions) ==
    IF \E ci \in 1..Len(compositions) :
         \E li \in 1..Len(compositions[ci].layers) :
            LET layer == compositions[ci].layers[li] IN
              \/ /\ layer.type = "TEXTURE"
                 /\ ~ \E ti \in 1..Len(textures) :
                        textures[ti].name = asset_name(layer)
              \/ /\ layer.type = "COMPOSITION"
                 /\ ~ \E cj \in 1..Len(compositions) :
                        compositions[cj].name = asset_name(layer)
    THEN "ValueError"
    ELSE ""

Project(textures, compositions) ==
    [ textures |-> textures, compositions |-> compositions ]

--------------------------------------------------------------------------
(* aep/bin.py: tables *)

Architecture == { "x86", "x64" }

LAYER_TYPES == [ COMPOSITION |-> 4, COLOUR |-> 6, TEXTURE |-> 7 ]
BLEND_MODES == [ NORMAL |-> 2, ADDITIVE |-> 4, UNKNOWN |-> 5 ]
AssetType == [ TEXTURE |-> 0, COMPOSITION |-> 1 ]

POINTER_SIZE == [ x86 |-> 4, x64 |-> 8 ]
COUNT_SIZE == [ x86 |-> 4, x64 |-> 8 ]
ASSET_SIZE == [ x86 |-> 20, x64 |-> 32 ]
ASSET_TERMINATOR_SIZE == [ x86 |-> 16, x64 |-> 16 ]
(* Variant in which the block after the terminator is the pointer alone *)
LAYERS_SECTION_POINTER_SIZE_PointerOnly == POINTER_SIZE

LAYERS_SECTION_POINTER_SIZE == [ x86 |-> 16, x64 |-> 16 ]
LAYER_SIZE == [ x86 |-> 56, x64 |-> 112 ]
LAYER_TIMELINE_SIZE == [ x86 |-> 12, x64 |-> 12 ]
POSITION_KEYFRAME_SIZE == [ x86 |-> 16, x64 |-> 16 ]
ANCHOR_POINT_KEYFRAME_SIZE == [ x86 |-> 16, x64 |-> 16 ]
COLOUR_KEYFRAME_SIZE == [ x86 |-> 8, x64 |-> 8 ]
SCALE_KEYFRAME_SIZE == [ x86 |-> 12, x64 |-> 12 ]
ALPHA_KEYFRAME_SIZE == [ x86 |-> 8, x64 |-> 8 ]
ROTATION_KEYFRAME_SIZE == [ x86 |-> 8, x64 |-> 8 ]
SIZE_KEYFRAME_SIZE == [ x86 |-> 8, x64 |-> 8 ]
MARKER_KEYFRAME_SIZE == [ x86 |-> 12, x64 |-> 16 ]

(* The keyframe slots of a layer record after the timeline pointer, in the
   order _encode_layer writes them and _decode_layer reads them; the sixth
   slot is the unused one. *)
TrackSlots ==
    << [ track |-> "position_keyframes",     kind |-> "position",     size |-> POSITION_KEYFRAME_SIZE ],
       [ track |-> "anchor_point_keyframes", kind |-> "anchor_point", size |-> ANCHOR_POINT_KEYFRAME_SIZE ],
       [ track |-> "colour_keyframes",       kind |-> "colour",       size |-> COLOUR_KEYFRAME_SIZE ],
       [ track |-> "scale_keyframes",        kind |-> "scale",        size |-> SCALE_KEYFRAME_SIZE ],
       [ track |-> "alpha_keyframes",        kind |-> "alpha",        size |-> ALPHA_KEYFRAME_SIZE ],
       [ track |-> "",                       kind |-> "unknown",      size |-> ALPHA_KEYFRAME_SIZE ],
       [ track |-> "rotation_x_keyframes",   kind |-> "rotation",     size |-> ROTATION_KEYFRAME_SIZE ],
       [ track |-> "rotation_y_keyframes",   kind |-> "rotation",     size |-> ROTATION_KEYFRAME_SIZE ],
       [ track |-> "rotation_z_keyframes",   kind |-> "rotation",     size |-> ROTATION_KEYFRAME_SIZE ],
       [ track |-> "size_keyframes",         kind |-> "size",         size |-> SIZE_KEYFRAME_SIZE ],
       [ track |-> "markers",                kind |-> "marker",       size |-> MARKER_KEYFRAME_SIZE ] >>

--------------------------------------------------------------------------
(* aep/bin.py: BinaryWriter *)

(* int.to_bytes(size, 'little') *)
RECURSIVE to_bytes(_, _)
to_bytes(value, size) ==
    IF size = 0 THEN <<>>
    ELSE << value % 256 >> \o to_bytes(value \div 256, size - 1)

(* int.to_bytes raises OverflowError for a negative value and for one that
   needs more than size bytes (the integers of the checker all fit 4 bytes
   and more) *)
to_bytes_overflows(value, size) ==
    value < 0 \/ (size < 4 /\ value >= Pow(256, size))

(* struct.pack('<f', v) for the floats the model uses (value scaled by 100) *)
F32Table ==
    << << 0,     << 0, 0, 0, 0 >> >>,
       << 50,    << 0, 0, 0, 63 >> >>,
       << 100,   << 0, 0, 128, 63 >> >>,
       << 5000,  << 0, 0, 72, 66 >> >>,
       << 9000,  << 0, 0, 180, 66 >> >>,
       << 10000, << 0, 0, 200, 66 >> >> >>

pack_f32(value) ==
    LET i == CHOOSE k \in 1..Len(F32Table) : F32Table[k][1] = value
    IN  F32Table[i][2]

write_u8(buffer, value) == buffer \o to_bytes(value, 1)
write_u16(buffer, value) == buffer \o to_bytes(value, 2)
write_u32(buffer, value) == buffer \o to_bytes(value, 4)
write_f32(buffer, value) == buffer \o pack_f32(value)
write_pointer(buffer, value, architecture) ==
    buffer \o to_bytes(value, POINTER_SIZE[architecture])
write_count(buffer, value, architecture) ==
    buffer \o to_bytes(value, COUNT_SIZE[architecture])
write_terminator(buffer, size) == buffer \o Zeros(size)

(* BinaryWriter.tell: the writers only append *)
tell(buffer) == Len(buffer)

(* BinaryStringWriter: [buffer, pointers], pointers a dict from value to the
   offset it was first written at *)
BinaryStringWriter == [ buffer |-> <<>>, pointers |-> <<>> ]

(* Variant that answers a repeated string with the current offset *)
write_string_CurrentOffset(strings_writer, value) ==
    IF value \notin DOMAIN strings_writer.pointers
    THEN [ writer |->
             [ buffer |-> write_terminator(strings_writer.buffer \o value, 1),
               pointers |-> strings_writer.pointers
                              @@ (value :> tell(strings_writer.buffer)) ],
           pointer |-> tell(strings_writer.buffer) ]
    ELSE [ writer |-> strings_writer,
           pointer |-> tell(strings_writer.buffer) ]

(* BinaryStringWriter.write_string: the writer afterwards and the returned
   offset *)
write_string(strings_writer, value) ==
    IF value \notin DOMAIN strings_writer.pointers
    THEN [ writer |->
             [ buffer |-> write_terminator(strings_writer.buffer \o value, 1),
               pointers |-> strings_writer.pointers
                              @@ (value :> tell(strings_writer.buffer)) ],
           pointer |-> tell(strings_writer.buffer) ]
    ELSE [ writer |-> strings_writer,
           pointer |-> strings_writer.pointers[value] ]

(* Variant whose bases leave the 16-byte pointer block out of the assets
   section *)
SectionPointers_WithoutPointerBlock(assets_size, layers_size, keyframes_size, strings_size) ==
    [ assets_size |-> assets_size,
      layers_size |-> layers_size,
      keyframes_size |-> keyframes_size,
      strings_size |-> strings_size,
      assets |-> 0,
      layers |-> 0 + assets_size - 16,
      keyframes |-> 0 + assets_size - 16 + layers_size,
      strings |-> 0 + assets_size - 16 + layers_size + keyframes_size ]

(* SectionPointers.__init__ *)
SectionPointers(assets_size, layers_size, keyframes_size, strings_size) ==
    [ assets_size |-> assets_size,
      layers_size |-> layers_size,
      keyframes_size |-> keyframes_size,
      strings_size |-> strings_size,
      assets |-> 0,
      layers |-> 0 + assets_size,
      keyframes |-> 0 + assets_size + layers_size,
      strings |-> 0 + assets_size + layers_size + keyframes_size ]

--------------------------------------------------------------------------
(* aep/bin.py: BinaryEncoder, phase 1 *)

(* Attribute lookup on an object: obj.attr raises AttributeError unless the
   object has the attribute *)
HasAttr(obj, attr) == attr \in DOMAIN obj

(* Variant that does not count the NUL *)
_get_string_encoded_size_NoNul(string) == Len(string)

(* BinaryEncoder._get_string_encoded_size *)
_get_string_encoded_size(string) == Len(string) + 1

(* "if name not in existing_strings: strings_size += ...; append" *)
count_string(acc, name) ==
    IF name \notin Range(acc.existing_strings)
    THEN [ acc EXCEPT !.strings_size = @ + _get_string_encoded_size(name),
                      !.existing_strings = Append(@, name) ]
    ELSE acc

RECURSIVE count_strings(_, _)
count_strings(acc, names) ==
    IF names = <<>> THEN acc
    ELSE count_strings(count_string(acc, Head(names)), Tail(names))

(* The keyframes bytes of the present tracks of a layer from slot i on *)
RECURSIVE tracks_size(_, _, _)
tracks_size(layer, architecture, i) ==
    IF i > Len(TrackSlots) THEN 0
    ELSE LET slot == TrackSlots[i] IN
         ( IF slot.track # "" /\ layer[slot.track] # None
           THEN slot.size[architecture] * (Len(Value(layer[slot.track])) + 1)
           ELSE 0 )
         + tracks_size(layer, architecture, i + 1)

(* _get_section_pointers, the body of "for layer in composition.layers" *)
size_layer(acc, layer, architecture) ==
    LET a1 == count_string([ acc EXCEPT !.layers_size = @ + LAYER_SIZE[architecture] ],
                           layer.name)
    IN  IF ~ HasAttr(layer, "has_timeline")
        THEN [ a1 EXCEPT !.err = "AttributeError" ]
        ELSE LET a2 == IF layer.has_timeline
                       THEN [ a1 EXCEPT !.keyframes_size = @ + LAYER_TIMELINE_SIZE[architecture] ]
                       ELSE a1
                 a3 == [ a2 EXCEPT !.keyframes_size = @ + tracks_size(layer, architecture, 1) ]
             IN  IF layer.markers # None
                 THEN count_strings(a3, [ k \in 1..Len(Value(layer.markers)) |->
                                            Value(layer.markers)[k].name ])
                 ELSE a3

RECURSIVE size_layers(_, _, _)
size_layers(acc, layers, architecture) ==
    IF layers = <<>> \/ acc.err # "" THEN acc
    ELSE size_layers(size_layer(acc, Head(layers), architecture), Tail(layers), architecture)

(* _get_section_pointers, the body of "for composition in project.compositions" *)
size_composition(acc, composition, architecture) ==
    size_layers(count_string([ acc EXCEPT !.assets_size = @ + ASSET_SIZE[architecture] ],
                             composition.name),
                composition.layers, architecture)

RECURSIVE size_compositions(_, _, _)
size_compositions(acc, compositions, architecture) ==
    IF compositions = <<>> \/ acc.err # "" THEN acc
    ELSE size_compositions(size_composition(acc, Head(compositions), architecture),
                           Tail(compositions), architecture)

(* _get_section_pointers, the body of "for texture in project.textures" *)
size_texture(acc, texture, architecture) ==
    count_string([ acc EXCEPT !.assets_size = @ + ASSET_SIZE[architecture] ], texture.name)

RECURSIVE size_textures(_, _, _)
size_textures(acc, textures, architecture) ==
    IF textures = <<>> THEN acc
    ELSE size_textures(size_texture(acc, Head(textures), architecture),
                       Tail(textures), architecture)

(* BinaryEncoder._get_section_pointers: [err, pointers] *)
_get_section_pointers(project, architecture) ==
    LET acc0 == [ assets_size |-> 0, layers_size |-> 0, keyframes_size |-> 0,
                  strings_size |-> 0, existing_strings |-> <<>>, err |-> "" ]
        acc1 == size_textures(acc0, project.textures, architecture)
        acc2 == size_compositions(acc1, project.compositions, architecture)
    IN  IF acc2.err # ""
        THEN [ err |-> acc2.err, pointers |-> SectionPointers(0, 0, 0, 0) ]
        ELSE [ err |-> "",
               pointers |-> SectionPointers(
                   acc2.assets_size + ASSET_TERMINATOR_SIZE[architecture]
                                    + LAYERS_SECTION_POINTER_SIZE[architecture],
                   acc2.layers_size, acc2.keyframes_size, acc2.strings_size) ]

--------------------------------------------------------------------------
(* aep/bin.py: BinaryEncoder, phase 2.  The writers of one encode call are
   the record [assets_writer, layers_writer, keyframes_writer,
   strings_writer, err]. *)

Writers ==
    [ assets_writer |-> <<>>, layers_writer |-> <<>>, keyframes_writer |-> <<>>,
      strings_writer |-> BinaryStringWriter, err |-> "" ]

(* BinaryEncoder._encode_asset *)
_encode_asset(st, name, type, width, height, num_layers, layers_pointer, section_pointers, architecture) ==
    LET ws == write_string(st.strings_writer, name)
        name_pointer == section_pointers.strings + ws.pointer
        b0 == st.assets_writer
        x86 == LET b1 == write_u16(b0, ASSET_SIZE[architecture])
                   b2 == write_u16(b1, type)
                   b3 == write_pointer(b2, name_pointer, architecture)
                   b4 == write_u16(b3, width)
                   b5 == write_u16(b4, height)
                   b6 == write_count(b5, num_layers, architecture)
               IN  write_pointer(b6, layers_pointer, architecture)
        x64 == LET b1 == write_pointer(b0, name_pointer, architecture)
                   b2 == write_u16(b1, ASSET_SIZE[architecture])
                   b3 == write_u16(b2, type)
                   b4 == write_u16(b3, width)
                   b5 == write_u16(b4, height)
                   b6 == write_pointer(b5, layers_pointer, architecture)
               IN  write_count(b6, num_layers, architecture)
        (* the bytes written before write_u16(width) and before
           write_u16(height): three fields and four on both architectures *)
        before_width == IF architecture = "x86"
                        THEN write_pointer(write_u16(write_u16(b0, ASSET_SIZE[architecture]),
                                                     type), name_pointer, architecture)
                        ELSE write_u16(write_u16(write_pointer(b0, name_pointer, architecture),
                                                 ASSET_SIZE[architecture]), type)
    IN  IF to_bytes_overflows(width, 2)
        THEN [ st EXCEPT !.strings_writer = ws.writer, !.assets_writer = before_width,
                         !.err = "OverflowError" ]
        ELSE IF to_bytes_overflows(height, 2)
        THEN [ st EXCEPT !.strings_writer = ws.writer,
                         !.assets_writer = write_u16(before_width, width),
                         !.err = "OverflowError" ]
        ELSE [ st EXCEPT !.strings_writer = ws.writer,
                         !.assets_writer = IF architecture = "x86" THEN x86 ELSE x64 ]

(* Variant that writes the height before the width *)
_encode_texture_HeightFirst(st, texture, section_pointers, architecture) ==
    _encode_asset(st, texture.name, AssetType.TEXTURE, texture.height, texture.width,
                  0, 0, section_pointers, architecture)

(* BinaryEncoder._encode_texture *)
_encode_texture(st, texture, section_pointers, architecture) ==
    _encode_asset(st, texture.name, AssetType.TEXTURE, texture.width, texture.height,
                  0, 0, section_pointers, architecture)

(* BinaryEncoder._encode_timeline: [keyframes_writer, pointer, err] *)
_encode_timeline(layer, section_pointers, keyframes_writer, architecture) ==
    IF ~ HasAttr(layer, "has_timeline")
    THEN [ keyframes_writer |-> keyframes_writer, pointer |-> 0, err |-> "AttributeError" ]
    ELSE IF ~ layer.has_timeline
    THEN [ keyframes_writer |-> keyframes_writer, pointer |-> 0, err |-> "" ]
    ELSE LET b1 == write_u16(keyframes_writer, LAYER_TIMELINE_SIZE[architecture])
             b2 == write_u16(b1, Value(layer.timeline_start))
             b3 == write_u16(b2, Value(layer.timeline_unknown1))
             b4 == write_u16(b3, Value(layer.timeline_duration))
             b5 == write_u32(b4, Value(layer.timeline_unknown2))
         IN  [ keyframes_writer |-> b5,
               pointer |-> section_pointers.keyframes + tell(keyframes_writer),
               err |-> "" ]

_encode_position_keyframe(keyframe, keyframes_writer) ==
    write_f32(write_f32(write_f32(keyframes_writer, keyframe.x), keyframe.y), keyframe.z)

_encode_anchor_point_keyframe(keyframe, keyframes_writer) ==
    write_f32(write_f32(write_f32(keyframes_writer, keyframe.x * 100),
                        keyframe.y * 100), keyframe.z * 100)

_encode_colour_keyframe(keyframe, keyframes_writer) ==
    write_u8(write_u8(write_u8(write_u8(keyframes_writer, keyframe.r), keyframe.g),
                      keyframe.b), keyframe.a)

_encode_scale_keyframe(keyframe, keyframes_writer) ==
    write_f32(write_f32(keyframes_writer, keyframe.x * 100), keyframe.y * 100)

_encode_alpha_keyframe(keyframe, keyframes_writer) ==
    write_f32(keyframes_writer, keyframe.value * 100)

_encode_rotation_keyframe(keyframe, keyframes_writer) ==
    write_f32(keyframes_writer, keyframe.degrees)

_encode_size_keyframe(keyframe, keyframes_writer) ==
    write_u16(write_u16(keyframes_writer, keyframe.width), keyframe.height)

(* BinaryEncoder._encode_marker_keyframe: writes to both writers *)
_encode_marker_keyframe(st, keyframe, section_pointers, architecture) ==
    LET ws == write_string(st.strings_writer, keyframe.name)
    IN  [ st EXCEPT !.strings_writer = ws.writer,
                    !.keyframes_writer =
                        write_pointer(write_u32(@, keyframe.unknown),
                                      section_pointers.strings + ws.pointer,
                                      architecture) ]

(* the encode_keyframe callback _encode_layer passes for a slot *)
encode_keyframe(st, kind, keyframe, section_pointers, architecture) ==
    CASE kind = "position" ->
           [ st EXCEPT !.keyframes_writer = _encode_position_keyframe(keyframe, @) ]
      [] kind = "anchor_point" ->
           [ st EXCEPT !.keyframes_writer = _encode_anchor_point_keyframe(keyframe, @) ]
      [] kind = "colour" ->
           [ st EXCEPT !.keyframes_writer = _encode_colour_keyframe(keyframe, @) ]
      [] kind = "scale" ->
           [ st EXCEPT !.keyframes_writer = _encode_scale_keyframe(keyframe, @) ]
      [] kind = "alpha" ->
           [ st EXCEPT !.keyframes_writer = _encode_alpha_keyframe(keyframe, @) ]
      [] kind = "rotation" ->
           [ st EXCEPT !.keyframes_writer = _encode_rotation_keyframe(keyframe, @) ]
      [] kind = "size" ->
           [ st EXCEPT !.keyframes_writer = _encode_size_keyframe(keyframe, @) ]
      [] kind = "marker" ->
           _encode_marker_keyframe(st, keyframe, section_pointers, architecture)

(* _encode_keyframes, "for keyframe in keyframes" *)
RECURSIVE encode_keyframe_records(_, _, _, _, _, _)
encode_keyframe_records(st, keyframes, size, kind, section_pointers, architecture) ==
    IF keyframes = <<>> THEN st
    ELSE LET keyframe == Head(keyframes)
             s1 == [ st EXCEPT !.keyframes_writer =
                        write_u16(write_u16(@, size[architecture]), keyframe.frame) ]
         IN  encode_keyframe_records(
                 encode_keyframe(s1, kind, keyframe, section_pointers, architecture),
                 Tail(keyframes), size, kind, section_pointers, architecture)

(* BinaryEncoder._encode_keyframes: [st, pointer] *)
_encode_keyframes(st, keyframes, size, kind, section_pointers, architecture) ==
    IF keyframes = None
    THEN [ st |-> st, pointer |-> 0 ]
    ELSE LET s1 == encode_keyframe_records(st, Value(keyframes), size, kind,
                                           section_pointers, architecture)
         IN  [ st |-> [ s1 EXCEPT !.keyframes_writer =
                          write_terminator(
                              write_u16(write_u16(@, size[architecture]), 65535),
                              size[architecture] - 4) ],
               pointer |-> section_pointers.keyframes + tell(st.keyframes_writer) ]

(* _encode_layer, the pointers of the slots from i on *)
RECURSIVE encode_tracks(_, _, _, _, _)
encode_tracks(st, layer, i, section_pointers, architecture) ==
    IF i > Len(TrackSlots) THEN st
    ELSE LET slot == TrackSlots[i] IN
         IF slot.kind = "unknown"
         THEN encode_tracks([ st EXCEPT !.layers_writer = write_pointer(@, 0, architecture) ],
                            layer, i + 1, section_pointers, architecture)
         ELSE LET r == _encode_keyframes(st, layer[slot.track], slot.size, slot.kind,
                                         section_pointers, architecture)
              IN  encode_tracks([ r.st EXCEPT !.layers_writer =
                                     write_pointer(@, r.pointer, architecture) ],
                                layer, i + 1, section_pointers, architecture)

(* BinaryEncoder._encode_layer *)
_encode_layer(st, layer, section_pointers, architecture) ==
    LET type == LAYER_TYPES[layer.type]
        blend_mode == BLEND_MODES[layer.blend_mode]
        b1 == write_u16(st.layers_writer, LAYER_SIZE[architecture])
        b2 == write_u8(b1, type * 16 + blend_mode)
        b3 == write_u8(b2, 0)
        b4 == IF architecture = "x64" THEN write_u32(b3, 0) ELSE b3
        ws == write_string(st.strings_writer, layer.name)
        b5 == write_pointer(b4, section_pointers.strings + ws.pointer, architecture)
        t  == _encode_timeline(layer, section_pointers, st.keyframes_writer, architecture)
        s1 == [ st EXCEPT !.layers_writer = b5, !.strings_writer = ws.writer ]
    IN  IF t.err # ""
        THEN [ s1 EXCEPT !.err = t.err ]
        ELSE encode_tracks([ s1 EXCEPT !.keyframes_writer = t.keyframes_writer,
                                       !.layers_writer = write_pointer(@, t.pointer, architecture) ],
                           layer, 1, section_pointers, architecture)

RECURSIVE encode_layers(_, _, _, _)
encode_layers(st, layers, section_pointers, architecture) ==
    IF layers = <<>> \/ st.err # "" THEN st
    ELSE encode_layers(_encode_layer(st, Head(layers), section_pointers, architecture),
                       Tail(layers), section_pointers, architecture)

(* Variant whose layers pointer is relative to the layers section *)
_encode_composition_Relative(st, composition, section_pointers, architecture) ==
    LET layers_pointer == tell(st.layers_writer)
    IN  encode_layers(
            _encode_asset(st, composition.name, AssetType.COMPOSITION,
                          composition.width, composition.height,
                          Len(composition.layers), layers_pointer,
                          section_pointers, architecture),
            composition.layers, section_pointers, architecture)

(* BinaryEncoder._encode_composition *)
_encode_composition(st, composition, section_pointers, architecture) ==
    LET layers_pointer == section_pointers.layers + tell(st.layers_writer)
    IN  encode_layers(
            _encode_asset(st, composition.name, AssetType.COMPOSITION,
                          composition.width, composition.height,
                          Len(composition.layers), layers_pointer,
                          section_pointers, architecture),
            composition.layers, section_pointers, architecture)

(* Variant that writes the textures from the last to the first *)
RECURSIVE encode_textures_Reversed(_, _, _, _)
encode_textures_Reversed(st, textures, section_pointers, architecture) ==
    IF textures = <<>> THEN st
    ELSE encode_textures_Reversed(
             _encode_texture(st, textures[Len(textures)], section_pointers, architecture),
             SubSeq(textures, 1, Len(textures) - 1), section_pointers, architecture)

RECURSIVE encode_textures(_, _, _, _)
encode_textures(st, textures, section_pointers, architecture) ==
    IF textures = <<>> \/ st.err # "" THEN st
    ELSE encode_textures(_encode_texture(st, Head(textures), section_pointers, architecture),
                         Tail(textures), section_pointers, architecture)

RECURSIVE encode_compositions(_, _, _, _)
encode_compositions(st, compositions, section_pointers, architecture) ==
    IF compositions = <<>> \/ st.err # "" THEN st
    ELSE encode_compositions(
             _encode_composition(st, Head(compositions), section_pointers, architecture),
             Tail(compositions), section_pointers, architecture)

(* BinaryEncoder.encode, the terminator, the layers pointer and its padding *)
encode_terminator(st, section_pointers, architecture) ==
    [ st EXCEPT !.assets_writer =
        write_terminator(
            write_pointer(write_terminator(@, ASSET_TERMINATOR_SIZE[architecture]),
                          section_pointers.layers, architecture),
            LAYERS_SECTION_POINTER_SIZE[architecture] - POINTER_SIZE[architecture]) ]

(* BinaryEncoder.encode, the size checks *)
sizes_match(st, section_pointers) ==
    /\ tell(st.assets_writer) = section_pointers.assets_size
    /\ tell(st.layers_writer) = section_pointers.layers_size
    /\ tell(st.keyframes_writer) = section_pointers.keyframes_size
    /\ tell(st.strings_writer.buffer) = section_pointers.strings_size

(* Variant that writes each section to the file as soon as it is built *)
encode_SectionsAsBuilt(project, architecture) ==
    LET sp == _get_section_pointers(project, architecture)
    IN  IF sp.err # ""
        THEN [ err |-> sp.err, phase |-> 1, section_pointers |-> sp.pointers,
               writers |-> Writers, output_file |-> <<>> ]
        ELSE
        LET s1 == encode_textures(Writers, project.textures, sp.pointers, architecture)
            s2 == encode_compositions(s1, project.compositions, sp.pointers, architecture)
            s3 == encode_terminator(s2, sp.pointers, architecture)
            written(s) == s.assets_writer \o s.layers_writer
                            \o s.keyframes_writer \o s.strings_writer.buffer
        IN  IF s2.err # ""
            THEN [ err |-> s2.err, phase |-> 2, section_pointers |-> sp.pointers,
                   writers |-> s2, output_file |-> written(s2) ]
            ELSE IF ~ sizes_match(s3, sp.pointers)
            THEN [ err |-> "ValueError", phase |-> 3, section_pointers |-> sp.pointers,
                   writers |-> s3, output_file |-> written(s3) ]
            ELSE [ err |-> "", phase |-> 4, section_pointers |-> sp.pointers,
                   writers |-> s3, output_file |-> written(s3) ]

(* BinaryEncoder.encode: the exception raised ("" for none), the section
   pointers of phase 1, the writers of phase 2 and the bytes of the output
   file. The file is opened 'wb+' before anything else, so it exists and is
   empty when encode raises. *)
encode(project, architecture) ==
    LET sp == _get_section_pointers(project, architecture)
    IN  IF sp.err # ""
        THEN [ err |-> sp.err, phase |-> 1, section_pointers |-> sp.pointers,
               writers |-> Writers, output_file |-> <<>> ]
        ELSE
        LET s1 == encode_textures(Writers, project.textures, sp.pointers, architecture)
            s2 == encode_compositions(s1, project.compositions, sp.pointers, architecture)
            s3 == encode_terminator(s2, sp.pointers, architecture)
        IN  IF s2.err # ""
            THEN [ err |-> s2.err, phase |-> 2, section_pointers |-> sp.pointers,
                   writers |-> s2, output_file |-> <<>> ]
            ELSE IF ~ sizes_match(s3, sp.pointers)
            THEN [ err |-> "ValueError", phase |-> 3, section_pointers |-> sp.pointers,
                   writers |-> s3, output_file |-> <<>> ]
            ELSE [ err |-> "", phase |-> 4, section_pointers |-> sp.pointers,
                   writers |-> s3,
                   output_file |-> s3.assets_writer \o s3.layers_writer
                                     \o s3.keyframes_writer \o s3.strings_writer.buffer ]

--------------------------------------------------------------------------
(* aep/bin.py: BinaryReader.  A reader is a file and a cursor; every read
   returns [value, pos], pos the cursor afterwards. As with a Python file, a
   read at the end of the file returns fewer bytes (or none) and
   int.from_bytes of no bytes is 0. peek(n) is modelled for files that fit
   the reader's buffer: it returns the next n bytes, fewer at the end. *)

read(file, pos, n) ==
    IF pos >= Len(file)
    THEN [ value |-> <<>>, pos |-> pos ]
    ELSE [ value |-> SubSeq(file, pos + 1, Min(pos + n, Len(file))),
           pos |-> Min(pos + n, Len(file)) ]

peek(file, pos, n) == read(file, pos, n).value

RECURSIVE from_bytes(_)
from_bytes(bytes) ==
    IF bytes = <<>> THEN 0 ELSE Head(bytes) + 256 * from_bytes(Tail(bytes))

read_int(file, pos, n) ==
    LET r == read(file, pos, n) IN [ value |-> from_bytes(r.value), pos |-> r.pos ]

read_u8(file, pos) == read_int(file, pos, 1)
read_u16(file, pos) == read_int(file, pos, 2)
read_u32(file, pos) == read_int(file, pos, 4)
read_pointer(file, pos, architecture) == read_int(file, pos, POINTER_SIZE[architecture])
read_count(file, pos, architecture) == read_int(file, pos, COUNT_SIZE[architecture])

(* struct.unpack('<f', bytes), of the floats of F32Table *)
unpack_f32(bytes) ==
    LET i == CHOOSE k \in 1..Len(F32Table) : F32Table[k][2] = bytes
    IN  F32Table[i][1]

(* BinaryReader.read_f32: [value, pos, err]; struct.error on a short read *)
read_f32(file, pos) ==
    LET r == read(file, pos, 4)
    IN  IF Len(r.value) < 4
        THEN [ value |-> 0, pos |-> r.pos, err |-> "struct.error" ]
        ELSE [ value |-> unpack_f32(r.value), pos |-> r.pos, err |-> "" ]

(* BinaryReader.read_string: [value, pos, err]. The loop reads to the first
   NUL at or after the pointer; with none before the end of the file
   peek(1) is b'' forever and the loop never ends ("NonTermination"). *)
read_string(file, pos, architecture) ==
    LET p == read_pointer(file, pos, architecture)
        pointer == p.value
        return_cursor == p.pos
        nuls == { k \in (pointer + 1)..Len(file) : file[k] = 0 }
    IN  IF nuls = {}
        THEN [ value |-> <<>>, pos |-> return_cursor, err |-> "NonTermination" ]
        ELSE LET first == CHOOSE k \in nuls : \A j \in nuls : k <= j
             IN  [ value |-> SubSeq(file, pointer + 1, first - 1),
                   pos |-> return_cursor, err |-> "" ]

--------------------------------------------------------------------------
(* aep/bin.py: BinaryDecoder *)

(* Variant that rounds to the nearest integer *)
int_mul255_Rounded(v) == (v * 255 + 50) \div 100

(* float / 100 and int(float * 255) on the scaled floats *)
div100(v) == CHOOSE q \in { v \div 100 } : q * 100 = v
int_mul255(v) == (v * 255) \div 100

(* the first error of a sequence of error fields, in order *)
RECURSIVE first_err(_)
first_err(errs) ==
    IF errs = <<>> THEN ""
    ELSE IF Head(errs) # "" THEN Head(errs) ELSE first_err(Tail(errs))

NoKeyframe == [ frame |-> 0 ]

_decode_position_keyframe(size, frame, file, pos, architecture) ==
    LET x == read_f32(file, pos)
        y == read_f32(file, x.pos)
        z == read_f32(file, y.pos)
        err == IF size # POSITION_KEYFRAME_SIZE[architecture] THEN "ValueError"
               ELSE first_err(<< x.err, y.err, z.err >>)
    IN  IF err # "" THEN [ err |-> err, keyframe |-> NoKeyframe ]
        ELSE [ err |-> "", keyframe |-> PositionKeyframe(frame, x.value, y.value, z.value) ]

_decode_anchor_point_keyframe(size, frame, file, pos, architecture) ==
    LET x == read_f32(file, pos)
        y == read_f32(file, x.pos)
        z == read_f32(file, y.pos)
        err == IF size # ANCHOR_POINT_KEYFRAME_SIZE[architecture] THEN "ValueError"
               ELSE first_err(<< x.err, y.err, z.err >>)
    IN  IF err # "" THEN [ err |-> err, keyframe |-> NoKeyframe ]
        ELSE [ err |-> "",
               keyframe |-> AnchorPointKeyframe(frame, div100(x.value), div100(y.value),
                                                div100(z.value)) ]

_decode_colour_keyframe(size, frame, file, pos, architecture) ==
    IF size # 8 /\ size # 20
    THEN [ err |-> "ValueError", keyframe |-> NoKeyframe ]
    ELSE IF size = 8
    THEN LET r == read_u8(file, pos)
             g == read_u8(file, r.pos)
             b == read_u8(file, g.pos)
             a == read_u8(file, b.pos)
         IN  [ err |-> "", keyframe |-> ColourKeyframe(frame, r.value, g.value, b.value, a.value) ]
    ELSE LET r == read_f32(file, pos)
             g == read_f32(file, r.pos)
             b == read_f32(file, g.pos)
             a == read_f32(file, b.pos)
             err == first_err(<< r.err, g.err, b.err, a.err >>)
         IN  IF err # "" THEN [ err |-> err, keyframe |-> NoKeyframe ]
             ELSE [ err |-> "",
                    keyframe |-> ColourKeyframe(frame, int_mul255(r.value), int_mul255(g.value),
                                                int_mul255(b.value), int_mul255(a.value)) ]

_decode_scale_keyframe(size, frame, file, pos, architecture) ==
    LET x == read_f32(file, pos)
        y == read_f32(file, x.pos)
        err == IF size # SCALE_KEYFRAME_SIZE[architecture] THEN "ValueError"
               ELSE first_err(<< x.err, y.err >>)
    IN  IF err # "" THEN [ err |-> err, keyframe |-> NoKeyframe ]
        ELSE [ err |-> "", keyframe |-> ScaleKeyframe(frame, div100(x.value), div100(y.value)) ]

_decode_alpha_keyframe(size, frame, file, pos, architecture) ==
    LET value == read_f32(file, pos)
        err == IF size # ALPHA_KEYFRAME_SIZE[architecture] THEN "ValueError" ELSE value.err
    IN  IF err # "" THEN [ err |-> err, keyframe |-> NoKeyframe ]
        ELSE [ err |-> "", keyframe |-> AlphaKeyframe(frame, div100(value.value)) ]

_decode_rotation_keyframe(size, frame, file, pos, architecture) ==
    LET degrees == read_f32(file, pos)
        err == IF size # ROTATION_KEYFRAME_SIZE[architecture] THEN "ValueError" ELSE degrees.err
    IN  IF err # "" THEN [ err |-> err, keyframe |-> NoKeyframe ]
        ELSE [ err |-> "", keyframe |-> RotationKeyframe(frame, degrees.value) ]

_decode_size_keyframe(size, frame, file, pos, architecture) ==
    LET width == read_u16(file, pos)
        height == read_u16(file, width.pos)
    IN  IF size # SIZE_KEYFRAME_SIZE[architecture]
        THEN [ err |-> "ValueError", keyframe |-> NoKeyframe ]
        ELSE [ err |-> "", keyframe |-> SizeKeyframe(frame, width.value, height.value) ]

_decode_marker_keyframe(size, frame, file, pos, architecture) ==
    LET unknown == read_u32(file, pos)
        name == read_string(file, unknown.pos, architecture)
        err == IF size # MARKER_KEYFRAME_SIZE[architecture] THEN "ValueError" ELSE name.err
    IN  IF err # "" THEN [ err |-> err, keyframe |-> NoKeyframe ]
        ELSE [ err |-> "", keyframe |-> Marker(frame, unknown.value, name.value) ]

(* the decode_keyframe callback _decode_layer passes for a slot *)
decode_keyframe(kind, size, frame, file, pos, architecture) ==
    CASE kind = "position" -> _decode_position_keyframe(size, frame, file, pos, architecture)
      [] kind = "anchor_point" -> _decode_anchor_point_keyframe(size, frame, file, pos, architecture)
      [] kind = "colour" -> _decode_colour_keyframe(size, frame, file, pos, architecture)
      [] kind = "scale" -> _decode_scale_keyframe(size, frame, file, pos, architecture)
      [] kind = "alpha" -> _decode_alpha_keyframe(size, frame, file, pos, architecture)
      [] kind = "rotation" -> _decode_rotation_keyframe(size, frame, file, pos, architecture)
      [] kind = "size" -> _decode_size_keyframe(size, frame, file, pos, architecture)
      [] kind = "marker" -> _decode_marker_keyframe(size, frame, file, pos, architecture)

(* _decode_keyframes, "while True": [err, keyframes] from the record at pos *)
RECURSIVE decode_keyframe_records(_, _, _, _, _)
decode_keyframe_records(file, pos, kind, architecture, keyframes) ==
    LET item_pointer == pos
        size == read_u16(file, pos)
        frame == read_u16(file, size.pos)
    IN  IF frame.value = 65535
        THEN [ err |-> "", keyframes |-> keyframes ]
        ELSE Let(decode_keyframe(kind, size.value, frame.value, file, frame.pos,
                                 architecture),
                 LAMBDA k :
                   IF k.err # ""
                   THEN [ err |-> k.err, keyframes |-> <<>> ]
                   ELSE decode_keyframe_records(file, item_pointer + size.value, kind,
                                                architecture, Append(keyframes, k.keyframe)))

(* BinaryDecoder._decode_keyframes: [err, keyframes], keyframes Optional *)
_decode_keyframes(file, pointer, kind, architecture) ==
    IF pointer = 0
    THEN [ err |-> "", keyframes |-> None ]
    ELSE Let(decode_keyframe_records(file, pointer, kind, architecture, <<>>),
             LAMBDA r : [ err |-> r.err, keyframes |-> Some(r.keyframes) ])


(* _decode_layer, the twelve pointers after the name: [value, pos], value
   the sequence of the pointers read from pos on *)
RECURSIVE read_pointers(_, _, _, _)
read_pointers(file, pos, n, architecture) ==
    IF n = 0 THEN [ value |-> <<>>, pos |-> pos ]
    ELSE LET p == read_pointer(file, pos, architecture)
             rest == read_pointers(file, p.pos, n - 1, architecture)
         IN  [ value |-> << p.value >> \o rest.value, pos |-> rest.pos ]

(* Variant that does not look at the pointer of the unknown slot *)
RECURSIVE decode_tracks_UnknownIgnored(_, _, _, _, _)
decode_tracks_UnknownIgnored(file, pointers, i, architecture, tracks) ==
    IF i > Len(TrackSlots) THEN [ err |-> "", tracks |-> tracks ]
    ELSE LET slot == TrackSlots[i] IN
         IF slot.kind = "unknown"
         THEN decode_tracks_UnknownIgnored(file, pointers, i + 1, architecture, tracks)
         ELSE Let(_decode_keyframes(file, pointers[i + 1], slot.kind, architecture),
                  LAMBDA r :
                    IF r.err # ""
                    THEN [ err |-> r.err, tracks |-> tracks ]
                    ELSE decode_tracks_UnknownIgnored(file, pointers, i + 1, architecture,
                                                      Append(tracks, r.keyframes)))

(* _decode_layer, the tracks of the slots from i on: [err, tracks].
   pointers[i + 1] is the pointer of slot i (pointers[1] the timeline's). *)
RECURSIVE decode_tracks(_, _, _, _, _)
decode_tracks(file, pointers, i, architecture, tracks) ==
    IF i > Len(TrackSlots) THEN [ err |-> "", tracks |-> tracks ]
    ELSE LET slot == TrackSlots[i] IN
         IF slot.kind = "unknown"
         THEN IF pointers[i + 1] # 0
              THEN [ err |-> "ValueError", tracks |-> tracks ]
              ELSE decode_tracks(file, pointers, i + 1, architecture, tracks)
         ELSE Let(_decode_keyframes(file, pointers[i + 1], slot.kind, architecture),
                  LAMBDA r :
                    IF r.err # ""
                    THEN [ err |-> r.err, tracks |-> tracks ]
                    ELSE decode_tracks(file, pointers, i + 1, architecture,
                                       Append(tracks, r.keyframes)))

NoLayer == [ name |-> <<>> ]

(* the key of a dict for a value, as LAYER_TYPES[nibble] reads bin.py's
   nibble -> symbol tables *)
KeyOf(table, code) == CHOOSE k \in DOMAIN table : table[k] = code

(* BinaryDecoder._decode_layer: [err, layer, pos] *)
_decode_layer(file, pos, architecture) ==
    LET pointer == pos
        size == read_u16(file, pos)
        type_blend_mode == read_u8(file, size.pos)
        type_code == (type_blend_mode.value \div 16) % 16
        blend_code == type_blend_mode.value % 16
        pad1 == read_u8(file, type_blend_mode.pos)
        pad2 == IF architecture = "x64" THEN read_u32(file, pad1.pos)
                ELSE [ value |-> 0, pos |-> pad1.pos ]
        name == read_string(file, pad2.pos, architecture)
        ptrs == read_pointers(file, name.pos, 12, architecture)
        timeline_pointer == ptrs.value[1]
        timeline_size == read_u16(file, timeline_pointer)
        timeline_start == read_u16(file, timeline_size.pos)
        timeline_unknown1 == read_u16(file, timeline_start.pos)
        timeline_duration == read_u16(file, timeline_unknown1.pos)
        timeline_unknown2 == read_u32(file, timeline_duration.pos)
        header_err ==
            IF type_code \notin Values(LAYER_TYPES) THEN "KeyError"
            ELSE IF blend_code \notin Values(BLEND_MODES) THEN "KeyError"
            ELSE IF pad1.value # 0 THEN "AssertionError"
            ELSE IF pad2.value # 0 THEN "AssertionError"
            ELSE IF name.err # "" THEN name.err
            ELSE IF size.value # LAYER_SIZE[architecture] THEN "ValueError"
            ELSE IF timeline_pointer # 0
                    /\ timeline_size.value # LAYER_TIMELINE_SIZE[architecture]
                 THEN "ValueError"
            ELSE IF timeline_pointer # 0 /\ timeline_unknown2.value # 4096
                 THEN "ValueError"
            ELSE ""
        timeline ==
            IF timeline_pointer # 0
            THEN << Some(timeline_start.value), Some(timeline_unknown1.value),
                    Some(timeline_duration.value), Some(timeline_unknown2.value) >>
            ELSE << None, None, None, None >>
    IN  IF header_err # ""
        THEN [ err |-> header_err, layer |-> NoLayer, pos |-> pos ]
        ELSE Let(decode_tracks(file, ptrs.value, 1, architecture, <<>>),
                 LAMBDA t :
                   IF t.err # ""
                   THEN [ err |-> t.err, layer |-> NoLayer, pos |-> pos ]
                   ELSE [ err |-> "",
                          layer |-> Layer(name.value, KeyOf(LAYER_TYPES, type_code),
                                          KeyOf(BLEND_MODES, blend_code), timeline, t.tracks),
                          pos |-> pointer + size.value ])

(* _decode_asset, "for _ in range(0, num_layers)": [err, layers] *)
RECURSIVE decode_layers(_, _, _, _, _)
decode_layers(file, pos, num_layers, architecture, layers) ==
    IF num_layers = 0 THEN [ err |-> "", layers |-> layers ]
    ELSE Let(_decode_layer(file, pos, architecture),
             LAMBDA l :
               IF l.err # ""
               THEN [ err |-> l.err, layers |-> layers ]
               ELSE decode_layers(file, l.pos, num_layers - 1, architecture,
                                  Append(layers, l.layer)))

NoAsset == [ name |-> <<>> ]

(* BinaryDecoder._decode_asset: [err, type, asset, pos] *)
_decode_asset(file, pos, architecture) ==
    LET pointer == pos
        x86 == LET size == read_u16(file, pos)
                   type == read_u16(file, size.pos)
                   name == read_string(file, type.pos, architecture)
                   width == read_u16(file, name.pos)
                   height == read_u16(file, width.pos)
                   num_layers == read_count(file, height.pos, architecture)
                   layers_pointer == read_pointer(file, num_layers.pos, architecture)
               IN  [ size |-> size.value, type |-> type.value, name |-> name,
                     width |-> width.value, height |-> height.value,
                     num_layers |-> num_layers.value,
                     layers_pointer |-> layers_pointer.value,
                     err |-> IF type.value \notin Values(AssetType) THEN "ValueError"
                             ELSE name.err ]
        x64 == LET name == read_string(file, pos, architecture)
                   size == read_u16(file, name.pos)
                   type == read_u16(file, size.pos)
                   width == read_u16(file, type.pos)
                   height == read_u16(file, width.pos)
                   layers_pointer == read_pointer(file, height.pos, architecture)
                   num_layers == read_count(file, layers_pointer.pos, architecture)
               IN  [ size |-> size.value, type |-> type.value, name |-> name,
                     width |-> width.value, height |-> height.value,
                     num_layers |-> num_layers.value,
                     layers_pointer |-> layers_pointer.value,
                     err |-> IF name.err # "" THEN name.err
                             ELSE IF type.value \notin Values(AssetType) THEN "ValueError"
                             ELSE "" ]
    IN  Let(IF architecture = "x86" THEN x86 ELSE x64,
            LAMBDA f :
              LET fail(e) == [ err |-> e, type |-> f.type, asset |-> NoAsset, pos |-> pos ]
              IN  IF f.err # "" THEN fail(f.err)
                  ELSE IF f.size # ASSET_SIZE[architecture] THEN fail("ValueError")
                  ELSE IF f.type = AssetType.TEXTURE
                  THEN IF f.num_layers # 0 \/ f.layers_pointer # 0
                       THEN fail("ValueError")
                       ELSE [ err |-> "", type |-> f.type,
                              asset |-> Texture(f.name.value, f.width, f.height),
                              pos |-> pointer + f.size ]
                  ELSE IF f.layers_pointer = 0
                       THEN fail("ValueError")
                       ELSE Let(decode_layers(file, f.layers_pointer, f.num_layers,
                                              architecture, <<>>),
                                LAMBDA l :
                                  IF l.err # "" THEN fail(l.err)
                                  ELSE [ err |-> "", type |-> f.type,
                                         asset |-> Composition(f.name.value, f.width,
                                                               f.height, l.layers),
                                         pos |-> pointer + f.size ]))

(* decode, "while reader.peek(...) != terminator": [err, textures,
   compositions], the assets partitioned by type in the order read *)
RECURSIVE decode_assets(_, _, _, _, _)
decode_assets(file, pos, architecture, textures, compositions) ==
    IF peek(file, pos, ASSET_TERMINATOR_SIZE[architecture])
         = Zeros(ASSET_TERMINATOR_SIZE[architecture])
    THEN [ err |-> "", textures |-> textures, compositions |-> compositions ]
    ELSE Let(_decode_asset(file, pos, architecture),
             LAMBDA a :
               IF a.err # ""
               THEN [ err |-> a.err, textures |-> <<>>, compositions |-> <<>> ]
               ELSE IF a.type = AssetType.TEXTURE
               THEN decode_assets(file, a.pos, architecture,
                                  Append(textures, a.asset), compositions)
               ELSE decode_assets(file, a.pos, architecture,
                                  textures, Append(compositions, a.asset)))

(* BinaryDecoder.decode: [err, project] *)
decode(file, architecture) ==
    Let(decode_assets(file, 0, architecture, <<>>, <<>>),
        LAMBDA a :
          Let(IF a.err # "" THEN a.err ELSE Project_init(a.textures, a.compositions),
              LAMBDA err :
                IF err # ""
                THEN [ err |-> err, project |-> Project(<<>>, <<>>) ]
                ELSE [ err |-> "", project |-> Project(a.textures, a.compositions) ]))

--------------------------------------------------------------------------
(* aep/json.py.  Python values on their way through json.dump and json.load:
   a dict is [t |-> "dict", fields |-> record], a list [t |-> "list", items],
   a tuple [t |-> "tuple", items]; a dict keyed by asset names is the
   sequence of its << key, value >> items in insertion order; numbers,
   strings and None (an Optional) stand for themselves. *)

PyDict(fields) == [ t |-> "dict", fields |-> fields ]
PyList(items) == [ t |-> "list", items |-> items ]
PyTuple(items) == [ t |-> "tuple", items |-> items ]

JSON_LAYER_TYPES ==
    [ composition |-> "COMPOSITION", colour |-> "COLOUR", texture |-> "TEXTURE" ]
JSON_BLEND_MODES ==
    [ normal |-> "NORMAL", additive |-> "ADDITIVE", unknown |-> "UNKNOWN" ]

(* The track fields of a layer object, with the keyframe kind of each *)
JsonTracks ==
    << [ track |-> "position_keyframes",     kind |-> "position" ],
       [ track |-> "anchor_point_keyframes", kind |-> "anchor_point" ],
       [ track |-> "colour_keyframes",       kind |-> "colour" ],
       [ track |-> "scale_keyframes",        kind |-> "scale" ],
       [ track |-> "alpha_keyframes",        kind |-> "alpha" ],
       [ track |-> "rotation_x_keyframes",   kind |-> "rotation" ],
       [ track |-> "rotation_y_keyframes",   kind |-> "rotation" ],
       [ track |-> "rotation_z_keyframes",   kind |-> "rotation" ],
       [ track |-> "size_keyframes",         kind |-> "size" ],
       [ track |-> "markers",                kind |-> "marker" ] >>

(* a | b on non-negative integers *)
RECURSIVE BitOr(_, _)
BitOr(a, b) ==
    IF a = 0 THEN b
    ELSE IF b = 0 THEN a
    ELSE (IF a % 2 = 1 \/ b % 2 = 1 THEN 1 ELSE 0) + 2 * BitOr(a \div 2, b \div 2)

(* (r << 24) | (g << 16) | (b << 8) | a as its base-256 digits, the most
   significant first and at least four of them: the integer itself can
   exceed the checker's integers *)
rgba_bytes(r, g, b, a) ==
    LET rb == to_bytes(r, 4)
        gb == to_bytes(g, 4)
        bb == to_bytes(b, 4)
        ab == to_bytes(a, 4)
        at(bytes, i) == IF i \in 1..4 THEN bytes[i] ELSE 0
        little == [ i \in 1..7 |->
                      BitOr(BitOr(at(rb, i - 3), at(gb, i - 2)),
                            BitOr(at(bb, i - 1), at(ab, i))) ]
        top == IF \E i \in 5..7 : little[i] # 0
               THEN CHOOSE i \in 5..7 : little[i] # 0 /\ \A j \in (i + 1)..7 : little[j] = 0
               ELSE 4
    IN  [ i \in 1..top |-> little[top + 1 - i] ]

(* "{0:08x}".format(value): the lower-case hex digits of the value, padded
   with zeros to eight characters *)
hex_digit(d) == IF d < 10 THEN 48 + d ELSE 97 + (d - 10)

format_hex(bytes) ==
    LET digits == Flatten([ i \in 1..Len(bytes) |->
                              << hex_digit(bytes[i] \div 16), hex_digit(bytes[i] % 16) >> ])
    IN  IF Len(bytes) > 4 /\ digits[1] = 48 THEN Tail(digits) ELSE digits

(* JsonEncoder._encode_*_keyframe: the variant fields of a keyframe object *)
json_encode_keyframe(kind, keyframe) ==
    CASE kind = "position" -> [ x |-> keyframe.x, y |-> keyframe.y, z |-> keyframe.z ]
      [] kind = "anchor_point" -> [ x |-> keyframe.x, y |-> keyframe.y, z |-> keyframe.z ]
      [] kind = "colour" ->
           [ rgba |-> << chr_hash >> \o
                      format_hex(rgba_bytes(keyframe.r, keyframe.g, keyframe.b, keyframe.a)) ]
      [] kind = "scale" -> [ x |-> keyframe.x, y |-> keyframe.y ]
      [] kind = "alpha" -> [ value |-> keyframe.value ]
      [] kind = "rotation" -> [ rotation |-> keyframe.degrees ]
      [] kind = "size" -> [ width |-> keyframe.width, height |-> keyframe.height ]
      [] kind = "marker" -> [ unknown |-> keyframe.unknown, name |-> keyframe.name ]

(* JsonEncoder._encode_keyframes: a list of one dict per keyframe *)
json_encode_keyframes(keyframes, kind) ==
    PyList([ i \in 1..Len(keyframes) |->
               PyDict([ frame |-> keyframes[i].frame ]
                      @@ json_encode_keyframe(kind, keyframes[i])) ])

(* JsonEncoder._encode_layer, the "if layer.<track> != None" statements from
   track i on. Each assignment ends with a comma, so the value stored is the
   1-tuple of the list. *)
RECURSIVE json_encode_tracks(_, _, _)
json_encode_tracks(output, layer, i) ==
    IF i > Len(JsonTracks) THEN output
    ELSE LET slot == JsonTracks[i] IN
         IF layer[slot.track] # None
         THEN json_encode_tracks(
                  output @@ (slot.track :>
                     PyTuple(<< json_encode_keyframes(Value(layer[slot.track]), slot.kind) >>)),
                  layer, i + 1)
         ELSE json_encode_tracks(output, layer, i + 1)

(* JsonEncoder._encode_layer *)
json_encode_layer(layer) ==
    PyDict(json_encode_tracks(
        [ name |-> layer.name,
          type |-> KeyOf(JSON_LAYER_TYPES, layer.type),
          blend_mode |-> KeyOf(JSON_BLEND_MODES, layer.blend_mode),
          timeline_start |-> layer.timeline_start,
          timeline_unknown1 |-> layer.timeline_unknown1,
          timeline_duration |-> layer.timeline_duration,
          timeline_unknown2 |-> layer.timeline_unknown2 ],
        layer, 1))

(* JsonEncoder._encode_texture and _encode_composition *)
json_encode_texture(texture) ==
    PyDict([ width |-> texture.width, height |-> texture.height ])

json_encode_composition(composition) ==
    PyDict([ width |-> composition.width, height |-> composition.height,
             layers |-> PyList([ i \in 1..Len(composition.layers) |->
                                   json_encode_layer(composition.layers[i]) ]) ])

(* d[key] = value on a dict kept as its items: an existing key keeps its
   place and takes the new value *)
dict_set(items, key, value) ==
    IF \E i \in 1..Len(items) : items[i][1] = key
    THEN [ i \in 1..Len(items) |->
             IF items[i][1] = key THEN << key, value >> ELSE items[i] ]
    ELSE Append(items, << key, value >>)

(* { a.name: f(a) for a in assets }, f given as the sequence of the f(a) *)
RECURSIVE dict_of(_, _, _)
dict_of(items, assets, values) ==
    IF assets = <<>> THEN items
    ELSE dict_of(dict_set(items, Head(assets).name, Head(values)),
                 Tail(assets), Tail(values))

(* json.dump then json.load of a value: a tuple is written as an array and
   read back as a list *)
RECURSIVE json_value(_)
json_value(v) ==
    CASE v.t = "dict" ->
           PyDict([ k \in DOMAIN v.fields |->
                      IF k \in { JsonTracks[i].track : i \in 1..Len(JsonTracks) } \cup { "layers" }
                      THEN json_value(v.fields[k]) ELSE v.fields[k] ])
      [] v.t \in { "list", "tuple" } ->
           PyList([ i \in 1..Len(v.items) |-> json_value(v.items[i]) ])

json_items(items) ==
    [ i \in 1..Len(items) |-> << items[i][1], json_value(items[i][2]) >> ]

(* JsonEncoder.encode: the document json.load reads back from the file *)
json_encode(project) ==
    [ textures |-> json_items(dict_of(<<>>, project.textures,
          [ i \in 1..Len(project.textures) |-> json_encode_texture(project.textures[i]) ])),
      compositions |-> json_items(dict_of(<<>>, project.compositions,
          [ i \in 1..Len(project.compositions) |->
              json_encode_composition(project.compositions[i]) ])) ]


(* Variant whose upper bound is one too high *)
_assert_un_Inclusive(value, num_bits) ==
    IF value = None THEN ""
    ELSE IF Value(value) < 0 \/ Value(value) \div Pow(2, num_bits - 16) > Pow(2, 16)
         THEN "ValueError"
    ELSE ""

(* JsonDecoder._assert_un: "ValueError" when a non-null value is outside
   0 .. 2^num_bits - 1. value is an Optional. value >= 2^num_bits is
   computed as value / 2^(num_bits - 16) >= 2^16, 2^32 being no integer of
   the checker. *)
_assert_un(value, num_bits) ==
    IF value = None THEN ""
    ELSE IF Value(value) < 0 \/ Value(value) \div Pow(2, num_bits - 16) >= Pow(2, 16)
         THEN "ValueError"
    ELSE ""

_assert_u16(value) == _assert_un(value, 16)
_assert_u32(value) == _assert_un(value, 32)

(* bytes.fromhex of one character: its value, or -1 when it is no hex digit *)
hex_value(c) ==
    IF c \in 48..57 THEN c - 48
    ELSE IF c \in 97..102 THEN c - 87
    ELSE IF c \in 65..70 THEN c - 55
    ELSE -1

(* bytes.fromhex of an even number of hex digits *)
fromhex(digits) ==
    [ i \in 1..(Len(digits) \div 2) |->
        hex_value(digits[2 * i - 1]) * 16 + hex_value(digits[2 * i]) ]

(* JsonDecoder._decode_colour_keyframe *)
json_decode_colour_keyframe(frame, input) ==
    IF "rgba" \notin DOMAIN input
    THEN [ err |-> "KeyError", keyframe |-> NoKeyframe ]
    ELSE LET rgba_string == input.rgba
             hex == Tail(rgba_string)
         IN  IF rgba_string = <<>> \/ Head(rgba_string) # chr_hash
             THEN [ err |-> "UnboundLocalError", keyframe |-> NoKeyframe ]
             ELSE IF Len(hex) # 8 \/ \E i \in 1..Len(hex) : hex_value(hex[i]) < 0
             THEN [ err |-> "ValueError", keyframe |-> NoKeyframe ]
             ELSE LET rgba == fromhex(hex)
                  IN  [ err |-> "",
                        keyframe |-> ColourKeyframe(frame, rgba[1], rgba[2], rgba[3], rgba[4]) ]

(* JsonDecoder._decode_*_keyframe: input the fields of the keyframe object *)
json_decode_keyframe(kind, frame, input) ==
    LET need(keys, keyframe) ==
            IF keys \subseteq DOMAIN input
            THEN [ err |-> "", keyframe |-> keyframe ]
            ELSE [ err |-> "KeyError", keyframe |-> NoKeyframe ]
    IN  CASE kind = "position" ->
               need({ "x", "y", "z" }, PositionKeyframe(frame, input.x, input.y, input.z))
          [] kind = "anchor_point" ->
               need({ "x", "y", "z" }, AnchorPointKeyframe(frame, input.x, input.y, input.z))
          [] kind = "colour" -> json_decode_colour_keyframe(frame, input)
          [] kind = "scale" -> need({ "x", "y" }, ScaleKeyframe(frame, input.x, input.y))
          [] kind = "alpha" -> need({ "value" }, AlphaKeyframe(frame, input.value))
          [] kind = "rotation" -> need({ "degrees" }, RotationKeyframe(frame, input.degrees))
          [] kind = "size" ->
               IF ~ ({ "width", "height" } \subseteq DOMAIN input)
               THEN [ err |-> "KeyError", keyframe |-> NoKeyframe ]
               ELSE IF first_err(<< _assert_u16(Some(input.width)),
                                    _assert_u16(Some(input.height)) >>) # ""
               THEN [ err |-> "ValueError", keyframe |-> NoKeyframe ]
               ELSE [ err |-> "", keyframe |-> SizeKeyframe(frame, input.width, input.height) ]
          [] kind = "marker" ->
               IF ~ ({ "unknown", "name" } \subseteq DOMAIN input)
               THEN [ err |-> "KeyError", keyframe |-> NoKeyframe ]
               ELSE IF _assert_u32(Some(input.unknown)) # ""
               THEN [ err |-> "ValueError", keyframe |-> NoKeyframe ]
               ELSE [ err |-> "", keyframe |-> Marker(frame, input.unknown, input.name) ]

(* JsonDecoder._decode_keyframes, "for keyframe in input": [err, keyframes].
   keyframe['frame'] on an item that is no dict raises TypeError. *)
RECURSIVE json_decode_keyframe_items(_, _, _)
json_decode_keyframe_items(items, kind, keyframes) ==
    IF items = <<>> THEN [ err |-> "", keyframes |-> keyframes ]
    ELSE LET keyframe == Head(items) IN
         IF keyframe.t # "dict"
         THEN [ err |-> "TypeError", keyframes |-> <<>> ]
         ELSE IF "frame" \notin DOMAIN keyframe.fields
         THEN [ err |-> "KeyError", keyframes |-> <<>> ]
         ELSE IF _assert_u16(Some(keyframe.fields.frame)) # ""
         THEN [ err |-> "ValueError", keyframes |-> <<>> ]
         ELSE Let(json_decode_keyframe(kind, keyframe.fields.frame, keyframe.fields),
                  LAMBDA k :
                    IF k.err # ""
                    THEN [ err |-> k.err, keyframes |-> <<>> ]
                    ELSE json_decode_keyframe_items(Tail(items), kind,
                                                    Append(keyframes, k.keyframe)))

(* JsonDecoder._decode_keyframes: [err, keyframes], keyframes Optional;
   input is input.get(track), an Optional *)
json_decode_keyframes(input, kind) ==
    IF input = None
    THEN [ err |-> "", keyframes |-> None ]
    ELSE Let(json_decode_keyframe_items(Value(input).items, kind, <<>>),
             LAMBDA r :
               IF r.err # "" THEN [ err |-> r.err, keyframes |-> None ]
               ELSE IF r.keyframes = <<>> THEN [ err |-> "", keyframes |-> None ]
               ELSE [ err |-> "", keyframes |-> Some(r.keyframes) ])

(* dict.get(key) *)
dict_get(fields, key) == IF key \in DOMAIN fields THEN Some(fields[key]) ELSE None

(* JsonDecoder._decode_layer, the tracks from i on: [err, tracks] *)
RECURSIVE json_decode_tracks(_, _, _)
json_decode_tracks(input, i, tracks) ==
    IF i > Len(JsonTracks) THEN [ err |-> "", tracks |-> tracks ]
    ELSE Let(json_decode_keyframes(dict_get(input, JsonTracks[i].track),
                                   JsonTracks[i].kind),
             LAMBDA r :
               IF r.err # "" THEN [ err |-> r.err, tracks |-> tracks ]
               ELSE json_decode_tracks(input, i + 1, Append(tracks, r.keyframes)))

(* JsonDecoder._decode_layer: [err, layer]; input the fields of the layer
   object *)
json_decode_layer(input) ==
    LET required == { "name", "type", "blend_mode", "timeline_start",
                      "timeline_unknown1", "timeline_duration", "timeline_unknown2" }
    IN  IF ~ (required \subseteq DOMAIN input)
        THEN [ err |-> "KeyError", layer |-> NoLayer ]
        ELSE IF input.type \notin DOMAIN JSON_LAYER_TYPES
                \/ input.blend_mode \notin DOMAIN JSON_BLEND_MODES
        THEN [ err |-> "KeyError", layer |-> NoLayer ]
        ELSE IF first_err(<< _assert_u16(input.timeline_start),
                             _assert_u16(input.timeline_unknown1),
                             _assert_u16(input.timeline_duration),
                             _assert_u32(input.timeline_unknown2) >>) # ""
        THEN [ err |-> "ValueError", layer |-> NoLayer ]
        ELSE Let(json_decode_tracks(input, 1, <<>>),
                 LAMBDA t :
                   IF t.err # "" THEN [ err |-> t.err, layer |-> NoLayer ]
                   ELSE [ err |-> "",
                          layer |-> Layer(input.name, JSON_LAYER_TYPES[input.type],
                                          JSON_BLEND_MODES[input.blend_mode],
                                          << input.timeline_start, input.timeline_unknown1,
                                             input.timeline_duration, input.timeline_unknown2 >>,
                                          t.tracks) ])

RECURSIVE json_decode_layers(_, _)
json_decode_layers(items, layers) ==
    IF items = <<>> THEN [ err |-> "", layers |-> layers ]
    ELSE Let(json_decode_layer(Head(items).fields),
             LAMBDA l :
               IF l.err # "" THEN [ err |-> l.err, layers |-> layers ]
               ELSE json_decode_layers(Tail(items), Append(layers, l.layer)))

(* JsonDecoder._decode_textures: [err, textures]; input the items of the
   "textures" object *)
RECURSIVE json_decode_textures(_, _)
json_decode_textures(input, textures) ==
    IF input = <<>> THEN [ err |-> "", textures |-> textures ]
    ELSE LET name == Head(input)[1]
             fields == Head(input)[2].fields
         IN  IF ~ ({ "width", "height" } \subseteq DOMAIN fields)
             THEN [ err |-> "KeyError", textures |-> <<>> ]
             ELSE IF first_err(<< _assert_u16(Some(fields.width)),
                                  _assert_u16(Some(fields.height)) >>) # ""
             THEN [ err |-> "ValueError", textures |-> <<>> ]
             ELSE json_decode_textures(Tail(input),
                      Append(textures, Texture(name, fields.width, fields.height)))

(* JsonDecoder._decode_compositions: [err, compositions] *)
RECURSIVE json_decode_compositions(_, _)
json_decode_compositions(input, compositions) ==
    IF input = <<>> THEN [ err |-> "", compositions |-> compositions ]
    ELSE LET name == Head(input)[1]
             fields == Head(input)[2].fields
         IN  IF ~ ({ "width", "height" } \subseteq DOMAIN fields)
             THEN [ err |-> "KeyError", compositions |-> <<>> ]
             ELSE IF first_err(<< _assert_u16(Some(fields.width)),
                                  _assert_u16(Some(fields.height)) >>) # ""
             THEN [ err |-> "ValueError", compositions |-> <<>> ]
             ELSE IF "layers" \notin DOMAIN fields
             THEN [ err |-> "KeyError", compositions |-> <<>> ]
             ELSE Let(json_decode_layers(fields.layers.items, <<>>),
                      LAMBDA l :
                        IF l.err # "" THEN [ err |-> l.err, compositions |-> <<>> ]
                        ELSE json_decode_compositions(Tail(input),
                                 Append(compositions,
                                        Composition(name, fields.width, fields.height,
                                                    l.layers))))

(* JsonDecoder.decode: [err, project] *)
json_decode(input) ==
    Let(json_decode_textures(input.textures, <<>>),
        LAMBDA t :
          IF t.err # ""
          THEN [ err |-> t.err, project |-> Project(<<>>, <<>>) ]
          ELSE Let(json_decode_compositions(input.compositions, <<>>),
                   LAMBDA c :
                     IF c.err # ""
                     THEN [ err |-> c.err, project |-> Project(<<>>, <<>>) ]
                     ELSE IF Project_init(t.textures, c.compositions) # ""
                     THEN [ err |-> Project_init(t.textures, c.compositions),
                            project |-> Project(<<>>, <<>>) ]
                     ELSE [ err |-> "", project |-> Project(t.textures, c.compositions) ]))

--------------------------------------------------------------------------
(* The explored inputs: the arguments Project is constructed from *)

str_a == << 97 >>
str_b == << 98 >>
str_c == << 99 >>
str_m == << 109 >>
str_L_a == << 76, chr_hyphen, 97 >>
str_L_a_b == << 76, chr_hyphen, 97, chr_hyphen, 98 >>

NoTimeline == << None, None, None, None >>
Timeline(start, duration) == << Some(start), Some(0), Some(duration), Some(4096) >>

NoTracks == [ i \in 1..10 |-> None ]

TextureChoices == { Texture(str_a, 2, 3), Texture(str_c, 300, 1), Texture(str_b, 70000, 1) }

LayerChoices ==
    { Layer(str_L_a, "TEXTURE", "NORMAL", NoTimeline, NoTracks),
      Layer(str_a, "COMPOSITION", "ADDITIVE", Timeline(0, 10), NoTracks),
      Layer(str_c, "COMPOSITION", "NORMAL", NoTimeline, NoTracks),
      Layer(str_b, "COLOUR", "UNKNOWN", NoTimeline,
            [ NoTracks EXCEPT ![1] = Some(<< PositionKeyframe(0, 100, 50, 0) >>),
                              ![3] = Some(<< ColourKeyframe(0, 255, 127, 0, 255),
                                             ColourKeyframe(7, 0, 0, 0, 1) >>) ]),
      Layer(str_L_a_b, "TEXTURE", "NORMAL", Timeline(1, 300),
            [ NoTracks EXCEPT ![10] = Some(<< Marker(0, 1, str_a),
                                              Marker(2, 70000, str_m) >>) ]),
      Layer(str_c, "COLOUR", "NORMAL", Timeline(0, 1),
            << Some(<< PositionKeyframe(0, 0, 100, 50) >>),
               Some(<< AnchorPointKeyframe(0, 50, 100, 0) >>),
               Some(<< ColourKeyframe(1, 1, 2, 3, 4) >>),
               Some(<< ScaleKeyframe(0, 100, 50) >>),
               Some(<< AlphaKeyframe(0, 100) >>),
               Some(<< RotationKeyframe(0, 9000) >>),
               Some(<< RotationKeyframe(0, 0) >>),
               Some(<< RotationKeyframe(3, 50) >>),
               Some(<< SizeKeyframe(0, 300, 2) >>),
               Some(<< Marker(5, 0, str_c) >>) >>) }

CompositionChoices ==
    { Composition(name, 640, 480, layers) :
        name \in { str_a, str_c }, layers \in SeqsUpTo(LayerChoices, MaxLayers) }

--------------------------------------------------------------------------
(* The state machine: Project is constructed from the chosen arguments; a
   constructed project is written by one of the encoders, and what an
   encoder wrote is read back by its decoder. *)

VARIABLES
    textures,       \* the textures Project is constructed from
    compositions,   \* the compositions Project is constructed from
    pc,             \* what has been done so far
    project,        \* the constructed Project, None before and on an error
    architecture,   \* the architecture of the binary encoder and decoder
    encoded,        \* what BinaryEncoder.encode returned and wrote
    decoded,        \* what BinaryDecoder.decode returned
    json_file,      \* the document JsonEncoder.encode wrote
    json_decoded,   \* what JsonDecoder.decode returned
    input_file,     \* the file aepconvert is given: its format and content
    reader          \* a BinaryReader: its file, its cursor, what read_string returned

vars == << textures, compositions, pc, project, architecture, encoded, decoded,
           json_file, json_decoded, input_file, reader >>

NotRun == [ err |-> "not run" ]

(* no file was given: the project is constructed in memory *)
NoInput == [ format |-> "none" ]

(* no BinaryReader is held between two calls of a decoder *)
NoReader == [ architecture |-> "none" ]

Init ==
    /\ textures \in SeqsUpTo(TextureChoices, MaxTextures)
    /\ compositions \in SeqsUpTo(CompositionChoices, MaxCompositions)
    /\ pc = "start"
    /\ project = None
    /\ architecture = "x86"
    /\ encoded = NotRun
    /\ decoded = NotRun
    /\ json_file = <<>>
    /\ json_decoded = NotRun
    /\ input_file = NoInput
    /\ reader = NoReader

(* Project(textures, compositions) *)
Construct ==
    /\ pc = "start"
    /\ IF Project_init(textures, compositions) = ""
       THEN /\ project' = Some(Project(textures, compositions))
            /\ pc' = "project"
       ELSE /\ project' = None
            /\ pc' = "construct_failed"
    /\ UNCHANGED << textures, compositions, architecture, encoded, decoded,
                    json_file, json_decoded, input_file, reader >>

(* BinaryEncoder(arch).encode(project, output_path) *)
BinaryEncode(arch) ==
    /\ pc = "project"
    /\ architecture' = arch
    /\ encoded' = encode(Value(project), arch)
    /\ pc' = IF encoded'.err = "" THEN "encoded" ELSE "encode_failed"
    /\ UNCHANGED << textures, compositions, project, decoded, json_file, json_decoded,
                    input_file, reader >>

(* BinaryDecoder(architecture).decode(output_path) of the file just written *)
BinaryDecode ==
    /\ pc = "encoded"
    /\ decoded' = decode(encoded.output_file, architecture)
    /\ pc' = IF decoded'.err = "" THEN "decoded" ELSE "decode_failed"
    /\ UNCHANGED << textures, compositions, project, architecture, encoded,
                    json_file, json_decoded, input_file, reader >>

(* JsonEncoder().encode(project, output_path) *)
JsonEncode ==
    /\ pc = "project"
    /\ json_file' = json_encode(Value(project))
    /\ pc' = "json_encoded"
    /\ UNCHANGED << textures, compositions, project, architecture, encoded,
                    decoded, json_decoded, input_file, reader >>

(* JsonDecoder().decode(output_path) of the file just written *)
JsonDecode ==
    /\ pc = "json_encoded"
    /\ json_decoded' = json_decode(json_file)
    /\ pc' = IF json_decoded'.err = "" THEN "json_decoded" ELSE "json_decode_failed"
    /\ UNCHANGED << textures, compositions, project, architecture, encoded,
                    decoded, json_file, input_file, reader >>

Next ==
    \/ Construct
    \/ \E arch \in Architecture : BinaryEncode(arch)
    \/ BinaryDecode
    \/ JsonEncode
    \/ JsonDecode

Spec == Init /\ [][Next]_vars

--------------------------------------------------------------------------
(* The files aepconvert is given.  A file written by another tool holds
   whatever its writer put there, so the catalogue is laid out from layers
   that need not satisfy the invariants of the model: a timeline constant
   other than 4096, a timeline with some fields null, a track of no
   keyframes, a frame of 0xFFFF, integers beyond their width, repeated asset
   names, colour records of 20 bytes. *)

OnlyTrack(i, keyframes) == [ NoTracks EXCEPT ![i] = Some(keyframes) ]

ForeignLayer(timeline, tracks) == Layer(str_b, "COLOUR", "NORMAL", timeline, tracks)

ForeignLayerChoices ==
    { ForeignLayer(NoTimeline, NoTracks),
      ForeignLayer(Timeline(1, 300), NoTracks),
      ForeignLayer(<< Some(1), Some(0), Some(10), Some(4095) >>, NoTracks),
      ForeignLayer(<< Some(0), Some(0), Some(0), Some(4097) >>, NoTracks),
      ForeignLayer(<< Some(0), Some(0), Some(0), Some(-1) >>, NoTracks),
      ForeignLayer(<< Some(65536), Some(0), Some(10), Some(4096) >>, NoTracks),
      ForeignLayer(<< Some(1), Some(70000), Some(10), Some(4096) >>, NoTracks),
      ForeignLayer(<< Some(1), Some(0), Some(-1), Some(4096) >>, NoTracks),
      ForeignLayer(<< None, Some(0), Some(10), Some(4096) >>, NoTracks),
      ForeignLayer(<< Some(1), Some(0), Some(10), None >>, NoTracks),
      ForeignLayer(NoTimeline, OnlyTrack(1, <<>>)),
      ForeignLayer(NoTimeline, OnlyTrack(10, <<>>)),
      ForeignLayer(Timeline(0, 1), OnlyTrack(3, <<>>)),
      ForeignLayer(NoTimeline, OnlyTrack(1, << PositionKeyframe(65535, 0, 0, 0) >>)),
      ForeignLayer(NoTimeline, OnlyTrack(1, << PositionKeyframe(65534, 100, 50, 0),
                                               PositionKeyframe(3, 0, 0, 0) >>)),
      ForeignLayer(NoTimeline, OnlyTrack(5, << AlphaKeyframe(65536, 100) >>)),
      ForeignLayer(NoTimeline, OnlyTrack(7, << RotationKeyframe(-1, 9000) >>)),
      ForeignLayer(NoTimeline, OnlyTrack(9, << SizeKeyframe(0, 65535, 0) >>)),
      ForeignLayer(NoTimeline, OnlyTrack(9, << SizeKeyframe(0, 65536, 2) >>)),
      ForeignLayer(NoTimeline, OnlyTrack(9, << SizeKeyframe(0, 2, -1) >>)),
      ForeignLayer(NoTimeline, OnlyTrack(10, << Marker(0, -1, str_m) >>)),
      ForeignLayer(NoTimeline, OnlyTrack(10, << Marker(0, 2147483647, str_m) >>)),
      ForeignLayer(NoTimeline, OnlyTrack(3, << ColourKeyframe(0, 255, 127, 0, 255),
                                               ColourKeyframe(7, 0, 0, 0, 1) >>)),
      Layer(str_L_a, "TEXTURE", "ADDITIVE", Timeline(0, 10), NoTracks),
      Layer(str_c, "COMPOSITION", "UNKNOWN", Timeline(0, 1),
            << Some(<< PositionKeyframe(0, 0, 100, 50) >>),
               Some(<< AnchorPointKeyframe(0, 50, 100, 0) >>),
               Some(<< ColourKeyframe(1, 1, 2, 3, 4) >>),
               Some(<< ScaleKeyframe(0, 100, 50) >>),
               Some(<< AlphaKeyframe(0, 100) >>),
               Some(<< RotationKeyframe(0, 9000) >>),
               Some(<< RotationKeyframe(0, 0) >>),
               Some(<< RotationKeyframe(3, 50) >>),
               Some(<< SizeKeyframe(0, 300, 2) >>),
               Some(<< Marker(5, 0, str_c) >>) >>) }

(* The projects the files are laid out from: one texture and one composition
   of catalogue layers, and projects without layers whose assets repeat a
   name or carry a size beyond 16 bits *)
ForeignProjects ==
    { Project(<< Texture(str_a, 2, 3) >>, << Composition(str_c, 640, 480, layers) >>) :
        layers \in SeqsUpTo(ForeignLayerChoices, MaxLayers) }
    \cup
    { Project(ts, cs) :
        ts \in { << >>,
                 << Texture(str_a, 2, 3), Texture(str_a, 300, 1) >>,
                 << Texture(str_a, 65536, 3) >>,
                 << Texture(str_a, 2, -1) >> },
        cs \in { << >>,
                 << Composition(str_c, 640, 480, <<>>), Composition(str_c, 1, 1, <<>>) >>,
                 << Composition(str_a, 70000, 480, <<>>) >>,
                 << Composition(str_a, 640, -5, <<>>) >> } }

(* An integer fits an unsigned field of 16 or of 32 bits. Every integer of
   the checker is below 2^32, so a field of 32 bits excludes the negative
   ones only. *)
FitsField(value, num_bits) ==
    value >= 0 /\ (num_bits = 16 => value <= 65535)

(* Every integer of the project fits its field: widths, heights, timeline
   start, unknown1 and duration, frames and size-keyframe widths and heights
   16 bits; timeline unknown2 and marker unknown 32 bits *)
FieldsFit(P) ==
    /\ \A a \in Range(P.textures) \cup Range(P.compositions) :
         FitsField(a.width, 16) /\ FitsField(a.height, 16)
    /\ \A l \in UNION { Range(P.compositions[ci].layers) : ci \in 1..Len(P.compositions) } :
         /\ l.timeline_start = None \/ FitsField(Value(l.timeline_start), 16)
         /\ l.timeline_unknown1 = None \/ FitsField(Value(l.timeline_unknown1), 16)
         /\ l.timeline_duration = None \/ FitsField(Value(l.timeline_duration), 16)
         /\ l.timeline_unknown2 = None \/ FitsField(Value(l.timeline_unknown2), 32)
         /\ \A i \in 1..Len(JsonTracks) :
              LET track == l[JsonTracks[i].track] IN
                track # None =>
                  \A k \in 1..Len(Value(track)) :
                     LET keyframe == Value(track)[k] IN
                       /\ FitsField(keyframe.frame, 16)
                       /\ JsonTracks[i].kind = "size" =>
                            FitsField(keyframe.width, 16) /\ FitsField(keyframe.height, 16)
                       /\ JsonTracks[i].kind = "marker" => FitsField(keyframe.unknown, 32)

(* A project a binary file can hold: every integer fits its field and a
   timeline is whole or absent (the layer record has one timeline pointer) *)
Writable(P) ==
    /\ FieldsFit(P)
    /\ \A l \in UNION { Range(P.compositions[ci].layers) : ci \in 1..Len(P.compositions) } :
         \/ /\ l.timeline_start = None /\ l.timeline_unknown1 = None
            /\ l.timeline_duration = None /\ l.timeline_unknown2 = None
         \/ /\ l.timeline_start # None /\ l.timeline_unknown1 # None
            /\ l.timeline_duration # None /\ l.timeline_unknown2 # None

(* The bytes of a binary file that holds the project: the sections as
   BinaryEncoder lays them out, written from layers that also carry the
   has_timeline attribute it reads *)
FileOf(P, arch) ==
    LET flagged(layer) == layer @@ [ has_timeline |-> layer.timeline_start # None ]
        Q == [ P EXCEPT !.compositions =
                 [ ci \in 1..Len(P.compositions) |->
                     [ P.compositions[ci] EXCEPT !.layers =
                         [ li \in 1..Len(P.compositions[ci].layers) |->
                             flagged(P.compositions[ci].layers[li]) ] ] ] ]
    IN  encode(Q, arch).output_file

(* file with the bytes at offset off replaced *)
Patch(file, off, bytes) ==
    [ i \in 1..Len(file) |->
        IF i - 1 \in off..(off + Len(bytes) - 1) THEN bytes[i - off] ELSE file[i] ]

(* A colour track on the wire in records of the given size: 20 bytes hold
   f32 r, g, b, a (the components of the keyframes are then the floats),
   other sizes hold u8 r, g, b, a and zero bytes up to the size *)
RECURSIVE ColourRecords(_, _)
ColourRecords(size, keyframes) ==
    IF keyframes = <<>>
    THEN to_bytes(size, 2) \o to_bytes(65535, 2) \o Zeros(size - 4)
    ELSE LET k == Head(keyframes)
             payload == IF size = 20
                        THEN pack_f32(k.r) \o pack_f32(k.g) \o pack_f32(k.b) \o pack_f32(k.a)
                        ELSE << k.r, k.g, k.b, k.a >> \o Zeros(size - 8)
         IN  to_bytes(size, 2) \o to_bytes(k.frame, 2) \o payload
               \o ColourRecords(size, Tail(keyframes))

(* The offset of the pointer of slot i (0 the timeline's) in the record of
   the first layer of the first composition *)
FirstLayerPointerOffset(file, P, arch, i) ==
    LET asset == Len(P.textures) * ASSET_SIZE[arch]
        layers_pointer == read_pointer(file, asset + 16, arch).value
    IN  layers_pointer + 2 * POINTER_SIZE[arch] + i * POINTER_SIZE[arch]

(* The file of P with a colour track of the given records for its first
   layer: the records follow the strings and the colour slot addresses them *)
FileWithColours(file, P, arch, form) ==
    Patch(file, FirstLayerPointerOffset(file, P, arch, 3),
          to_bytes(Len(file), POINTER_SIZE[arch]))
      \o ColourRecords(form.size, form.keyframes)

ColourForms ==
    { [ size |-> 20, keyframes |-> << ColourKeyframe(0, 100, 50, 0, 100) >> ],
      [ size |-> 20, keyframes |-> << ColourKeyframe(2, 0, 0, 100, 50),
                                      ColourKeyframe(9, 100, 100, 100, 100) >> ],
      [ size |-> 20, keyframes |-> << >> ],
      [ size |-> 8,  keyframes |-> << ColourKeyframe(4, 255, 127, 0, 255) >> ],
      [ size |-> 12, keyframes |-> << ColourKeyframe(0, 1, 2, 3, 4) >> ],
      [ size |-> 16, keyframes |-> << ColourKeyframe(0, 1, 2, 3, 4) >> ],
      [ size |-> 24, keyframes |-> << ColourKeyframe(0, 1, 2, 3, 4) >> ] }

ColourProject ==
    Project(<< Texture(str_a, 2, 3) >>,
            << Composition(str_c, 640, 480, << ForeignLayer(Timeline(0, 10), NoTracks) >>) >>)

(* A JSON document that holds the project: the objects JsonDecoder reads,
   a track an array of keyframe objects, a rotation under "degrees" *)
DocumentOf(P) ==
    LET keyframe_object(kind, k) ==
            PyDict([ frame |-> k.frame ]
                   @@ IF kind = "rotation" THEN [ degrees |-> k.degrees ]
                      ELSE json_encode_keyframe(kind, k))
        tracks(layer) ==
            LET present == { i \in 1..Len(JsonTracks) : layer[JsonTracks[i].track] # None }
            IN  [ name \in { JsonTracks[i].track : i \in present } |->
                    LET i == CHOOSE j \in present : JsonTracks[j].track = name
                        keyframes == Value(layer[name])
                    IN  PyList([ k \in 1..Len(keyframes) |->
                                   keyframe_object(JsonTracks[i].kind, keyframes[k]) ]) ]
        layer_object(layer) ==
            PyDict([ name |-> layer.name,
                     type |-> KeyOf(JSON_LAYER_TYPES, layer.type),
                     blend_mode |-> KeyOf(JSON_BLEND_MODES, layer.blend_mode),
                     timeline_start |-> layer.timeline_start,
                     timeline_unknown1 |-> layer.timeline_unknown1,
                     timeline_duration |-> layer.timeline_duration,
                     timeline_unknown2 |-> layer.timeline_unknown2 ]
                   @@ tracks(layer))
        composition_object(c) ==
            PyDict([ width |-> c.width, height |-> c.height,
                     layers |-> PyList([ i \in 1..Len(c.layers) |-> layer_object(c.layers[i]) ]) ])
    IN  [ textures |-> dict_of(<<>>, P.textures,
              [ i \in 1..Len(P.textures) |-> json_encode_texture(P.textures[i]) ]),
          compositions |-> dict_of(<<>>, P.compositions,
              [ i \in 1..Len(P.compositions) |-> composition_object(P.compositions[i]) ]) ]

NoColourForm == [ size |-> 0, keyframes |-> << >> ]

NoDocument == [ textures |-> << >>, compositions |-> << >> ]

(* The offset of the pointer of slot i (0 the timeline's) in the record of
   layer k of the first composition *)
LayerPointerOffset(file, P, arch, k, i) ==
    FirstLayerPointerOffset(file, P, arch, i) + (k - 1) * LAYER_SIZE[arch]

(* The projects the changed files are laid out from: the empty one, and one
   texture and one composition of one catalogue layer, which has a timeline
   and no track, or one track of two keyframes, or every track *)
DamageSources ==
    { Project(<< >>, << >>) }
    \cup
    { Project(<< Texture(str_a, 2, 3) >>, << Composition(str_c, 640, 480, << layer >>) >>) :
        layer \in { l \in ForeignLayerChoices :
                      \/ l.type = "COMPOSITION"
                      \/ l = ForeignLayer(Timeline(1, 300), NoTracks)
                      \/ l = ForeignLayer(NoTimeline,
                                          OnlyTrack(1, << PositionKeyframe(65534, 100, 50, 0),
                                                          PositionKeyframe(3, 0, 0, 0) >>)) } }

(* The sources of the changed files that have a layer *)
LayeredProjects ==
    { P \in DamageSources : P.compositions # << >> /\ P.compositions[1].layers # << >> }

(* the bytes of the asset records of the file of P *)
AssetRecordsSize(P, arch) == (Len(P.textures) + Len(P.compositions)) * ASSET_SIZE[arch]

(* a binary input laid out from P and then changed *)
Damaged(damage, P, arch, file) ==
    [ format |-> arch, source |-> P, colours |-> NoColourForm, damage |-> damage,
      file |-> file, document |-> NoDocument ]

(* Files whose last layer record has a pointer in the unknown slot *)
UnknownSlotFiles(P, arch, file) ==
    { Damaged("unknown slot", P, arch,
              Patch(file,
                    LayerPointerOffset(file, P, arch, Len(P.compositions[1].layers), 6),
                    to_bytes(pointer, POINTER_SIZE[arch]))) :
        pointer \in { 1, 255 } }

(* Files cut one byte short: the last string has no NUL *)
NoNulFiles(P, arch, file) ==
    { Damaged("no nul", P, arch, SubSeq(file, 1, Len(file) - 1)) }

(* the last slot of the layer with a track *)
LastTrackSlot(layer) ==
    CHOOSE s \in 1..Len(TrackSlots) :
       /\ TrackSlots[s].kind # "unknown" /\ layer[TrackSlots[s].track] # None
       /\ \A t \in (s + 1)..Len(TrackSlots) :
            TrackSlots[t].kind = "unknown" \/ layer[TrackSlots[t].track] = None

(* The sources whose last layer has a track, the last of them without a
   keyframe of frame 0xFFFF *)
NoSentinelSources ==
    { Q \in LayeredProjects :
        LET layer == Q.compositions[1].layers[Len(Q.compositions[1].layers)] IN
          /\ \E s \in 1..Len(TrackSlots) :
               TrackSlots[s].kind # "unknown" /\ layer[TrackSlots[s].track] # None
          /\ \A k \in Range(Value(layer[TrackSlots[LastTrackSlot(layer)].track])) :
               k.frame # 65535 }

(* Files whose last keyframe list, the last track of the last layer, has a
   frame of 2 where its sentinel has 0xFFFF, and no other record with that
   frame: the strings follow it *)
NoSentinelFiles(P, arch, file) ==
    { Damaged("no sentinel", P, arch,
              Let(Len(P.compositions[1].layers),
                  LAMBDA last :
                    Let(LastTrackSlot(P.compositions[1].layers[last]),
                        LAMBDA s :
                          Patch(file,
                                read_pointer(file,
                                             LayerPointerOffset(file, P, arch, last, s),
                                             arch).value
                                  + Len(Value(P.compositions[1].layers[last]
                                                [TrackSlots[s].track]))
                                      * TrackSlots[s].size[arch]
                                  + 2,
                                << 2, 0 >>)))) }

(* Files whose asset records are followed by a byte of 1 where the 16 NULs
   begin *)
NoTerminatorFiles(P, arch, file) ==
    { Damaged("no terminator", P, arch, Patch(file, AssetRecordsSize(P, arch), << 1 >>)) }

(* Files that end early: after the asset records, and before the first byte *)
CutFiles(P, arch, file) ==
    { Damaged("cut", P, arch, SubSeq(file, 1, AssetRecordsSize(P, arch))) }

(* Colour lists in records of 20 bytes whose floats are not all in 0..1:
   50.0 and 100.0 *)
WideColours ==
    { << ColourKeyframe(0, 5000, 50, 0, 100) >>,
      << ColourKeyframe(3, 100, 100, 100, 100), ColourKeyframe(4, 0, 0, 0, 10000) >> }

(* Files with a colour list for the first layer: of every record size, and
   of wide floats *)
ColourFiles(P, arch, file) ==
    { [ Damaged("none", P, arch, FileWithColours(file, P, arch, form))
          EXCEPT !.colours = form ] : form \in ColourForms }
    \cup
    { Damaged("wide colour", P, arch,
              FileWithColours(file, P, arch, [ size |-> 20, keyframes |-> keyframes ])) :
        keyframes \in WideColours }

(* The binary inputs made of the file of P: the file, and what the families
   P is a source of make of it *)
BinaryInputs(P, arch, file) ==
    UNION { { Damaged("none", P, arch, file) },
            IF P = ColourProject THEN ColourFiles(P, arch, file) ELSE { },
            IF P \in LayeredProjects THEN UnknownSlotFiles(P, arch, file) ELSE { },
            IF P \in DamageSources /\ AssetRecordsSize(P, arch) > 0
            THEN NoNulFiles(P, arch, file) ELSE { },
            IF P \in NoSentinelSources THEN NoSentinelFiles(P, arch, file) ELSE { },
            IF P \in DamageSources
            THEN NoTerminatorFiles(P, arch, file) \cup CutFiles(P, arch, file) ELSE { } }

(* An input: its format, the project and the colour records it was laid out
   from, what was then changed in it, and its content (the bytes of a binary
   file, the document of a JSON file) *)
InputFiles ==
    UNION { Let(FileOf(P, arch), LAMBDA file : BinaryInputs(P, arch, file)) :
              arch \in Architecture,
              P \in { Q \in ForeignProjects : Writable(Q) } \cup { ColourProject } }
    \cup
    { [ format |-> "json", source |-> P, colours |-> NoColourForm, damage |-> "none",
        file |-> << >>, document |-> DocumentOf(P) ] :
        P \in ForeignProjects }

--------------------------------------------------------------------------
(* aepconvert: the input file is decoded by the decoder of its format and
   the project is written by the encoder of the output format. *)

ConvertInit ==
    /\ textures = << >>
    /\ compositions = << >>
    /\ pc = "input"
    /\ project = None
    /\ architecture = "x86"
    /\ encoded = NotRun
    /\ decoded = NotRun
    /\ json_file = << >>
    /\ json_decoded = NotRun
    /\ input_file \in InputFiles
    /\ reader = NoReader

(* project = DECODERS[x86 or x64].decode(input_path) *)
ReadBinary ==
    /\ pc = "input"
    /\ input_file.format \in Architecture
    /\ architecture' = input_file.format
    /\ decoded' = decode(input_file.file, input_file.format)
    /\ IF decoded'.err = ""
       THEN project' = Some(decoded'.project) /\ pc' = "project"
       ELSE project' = None /\ pc' = "decode_failed"
    /\ UNCHANGED << textures, compositions, encoded, json_file, json_decoded, input_file, reader >>

(* project = DECODERS[json].decode(input_path) *)
ReadJson ==
    /\ pc = "input"
    /\ input_file.format = "json"
    /\ json_decoded' = json_decode(input_file.document)
    /\ IF json_decoded'.err = ""
       THEN project' = Some(json_decoded'.project) /\ pc' = "project"
       ELSE project' = None /\ pc' = "json_decode_failed"
    /\ UNCHANGED << textures, compositions, architecture, encoded, decoded, json_file,
                    input_file, reader >>

ConvertNext ==
    \/ ReadBinary
    \/ ReadJson
    \/ \E arch \in Architecture : BinaryEncode(arch)
    \/ JsonEncode

ConvertSpec == ConvertInit /\ [][ConvertNext]_vars

--------------------------------------------------------------------------
(* BinaryReader.read_string on its own: a reader over a file, with its
   cursor where a string pointer is expected, is asked for the string.  The
   files hold up to one byte, then a pointer, then the bytes the pointer may
   address, and are cut at every length, so that a pointer may address a
   string, bytes without a NUL or nothing, and may itself be cut short. *)

MaxPointer == 12
MaxBody == 3

NotCalled == [ err |-> "not called", value |-> << >> ]

ReaderInputs ==
    { [ architecture |-> arch,
        file |-> Let(prefix \o to_bytes(pointer, POINTER_SIZE[arch]) \o body,
                     LAMBDA whole : SubSeq(whole, 1, Min(length, Len(whole)))),
        start |-> Len(prefix), cursor |-> Len(prefix), result |-> NotCalled ] :
        arch \in Architecture, prefix \in SeqsUpTo({ 0, 97 }, 1),
        pointer \in 0..MaxPointer, body \in SeqsUpTo({ 0, 97, 98 }, MaxBody),
        length \in 0..(1 + 8 + MaxBody) }

ReaderInit ==
    /\ textures = << >>
    /\ compositions = << >>
    /\ pc = "reader"
    /\ project = None
    /\ architecture = "x86"
    /\ encoded = NotRun
    /\ decoded = NotRun
    /\ json_file = << >>
    /\ json_decoded = NotRun
    /\ input_file = NoInput
    /\ reader \in ReaderInputs

(* reader.read_string(); a call that never returns leaves "NonTermination" *)
ReadString ==
    /\ pc = "reader"
    /\ reader.result = NotCalled
    /\ reader' = Let(read_string(reader.file, reader.cursor, reader.architecture),
                     LAMBDA r : [ reader EXCEPT !.cursor = r.pos,
                                                !.result = [ err |-> r.err,
                                                             value |-> r.value ] ])
    /\ UNCHANGED << textures, compositions, pc, project, architecture, encoded, decoded,
                    json_file, json_decoded, input_file >>

ReaderNext == ReadString

ReaderSpec == ReaderInit /\ [][ReaderNext]_vars

--------------------------------------------------------------------------
(* Properties *)

Names(assets) == { assets[i].name : i \in 1..Len(assets) }

LayersOf(P) ==
    UNION { Range(P.compositions[ci].layers) : ci \in 1..Len(P.compositions) }

Distinct(s) == \A i, j \in 1..Len(s) : s[i] = s[j] => i = j

(* The invariants of the data model: unique texture and composition names,
   a timeline that is whole or absent with unknown2 = 4096, tracks that are
   absent or non-empty with frames below 0xFFFF, u16 sizes *)
ModelInvariants(P) ==
    /\ Distinct([ i \in 1..Len(P.textures) |-> P.textures[i].name ])
    /\ Distinct([ i \in 1..Len(P.compositions) |-> P.compositions[i].name ])
    /\ \A a \in Range(P.textures) \cup Range(P.compositions) :
         a.width \in 0..65535 /\ a.height \in 0..65535
    /\ \A l \in LayersOf(P) :
         /\ \/ /\ l.timeline_start = None /\ l.timeline_unknown1 = None
               /\ l.timeline_duration = None /\ l.timeline_unknown2 = None
            \/ /\ l.timeline_start # None /\ l.timeline_unknown1 # None
               /\ l.timeline_duration # None /\ l.timeline_unknown2 = Some(4096)
         /\ \A i \in 1..Len(JsonTracks) :
              LET track == l[JsonTracks[i].track] IN
                track # None =>
                  /\ Value(track) # <<>>
                  /\ \A k \in 1..Len(Value(track)) : Value(track)[k].frame \in 0..65534

(* C1: for every project that satisfies the model invariants and either
   architecture, binary encode succeeds, binary decode of the written file
   succeeds and the decoded project equals the encoded one. *)
C1_BinaryRoundTrip ==
    ( /\ pc \in { "encoded", "encode_failed", "decoded", "decode_failed" }
      /\ ModelInvariants(Value(project)) )
    => /\ pc \notin { "encode_failed", "decode_failed" }
       /\ pc = "decoded" => decoded.project = Value(project)

(* C2: for every project that satisfies the model invariants, JSON encode
   followed by JSON decode of the written document succeeds and returns a
   project equal to the encoded one, tracks included. *)
C2_JsonRoundTrip ==
    ( /\ pc \in { "json_decoded", "json_decode_failed" }
      /\ ModelInvariants(Value(project)) )
    => /\ pc = "json_decoded"
       /\ json_decoded.project = Value(project)

(* A texture layer whose asset_name is no texture's name, or a composition
   layer whose asset_name is no composition's name *)
UnresolvedReference(ts, cs) ==
    \E l \in LayersOf(Project(ts, cs)) :
       \/ l.type = "TEXTURE" /\ asset_name(l) \notin Names(ts)
       \/ l.type = "COMPOSITION" /\ asset_name(l) \notin Names(cs)

(* C10: constructing a Project fails if and only if some texture layer's
   asset_name is no texture's name or some composition layer's asset_name is
   no composition's name (colour layers are not checked); so every
   reference of a project a decoder returns resolves. *)
C10_ConstructionFailsIffUnresolved ==
    /\ pc # "start" =>
         ( (pc = "construct_failed") <=> UnresolvedReference(textures, compositions) )
    /\ pc # "start" => ( (project = None) <=> (pc = "construct_failed") )
    /\ pc = "decoded" =>
         ~ UnresolvedReference(decoded.project.textures, decoded.project.compositions)
    /\ pc = "json_decoded" =>
         ~ UnresolvedReference(json_decoded.project.textures,
                               json_decoded.project.compositions)

(* Construction failed on a composition layer named as a texture is *)
C10_Witness ==
    /\ pc = "construct_failed"
    /\ \E l \in LayersOf(Project(textures, compositions)) :
         l.type = "COMPOSITION" /\ asset_name(l) \in Names(textures)
    /\ \A l \in LayersOf(Project(textures, compositions)) : l.type # "TEXTURE"

--------------------------------------------------------------------------
(* Reading the bytes of the written file *)

Out == encoded.output_file

EncodeRan == encoded.err # "not run"

EncodeSucceeded == encoded.err = ""

(* The little-endian integer of the n bytes at offset off, -1 past the end *)
Field(off, n) ==
    IF off < 0 \/ off + n > Len(Out) THEN -1
    ELSE from_bytes(SubSeq(Out, off + 1, off + n))

PointerAt(off) == Field(off, POINTER_SIZE[architecture])

(* The n bytes at offset off are all zero *)
ZeroAt(off, n) ==
    /\ off >= 0 /\ off + n <= Len(Out)
    /\ \A k \in (off + 1)..(off + n) : Out[k] = 0

(* The bytes at offset off spell the string and a NUL *)
StringAt(off, string) ==
    /\ off >= 0 /\ off + Len(string) + 1 <= Len(Out)
    /\ SubSeq(Out, off + 1, off + Len(string) + 1) = string \o << 0 >>

NumAssets == Len(Value(project).textures) + Len(Value(project).compositions)

AssetAt(i) ==
    IF i <= Len(Value(project).textures)
    THEN Value(project).textures[i]
    ELSE Value(project).compositions[i - Len(Value(project).textures)]

AssetOffset(i) == (i - 1) * ASSET_SIZE[architecture]

AssetSizeField(i) == Field(AssetOffset(i) + (IF architecture = "x86" THEN 0 ELSE 8), 2)

AssetTypeField(i) == Field(AssetOffset(i) + (IF architecture = "x86" THEN 2 ELSE 10), 2)

AssetNamePointer(i) == PointerAt(AssetOffset(i) + (IF architecture = "x86" THEN 4 ELSE 0))

AssetLayersPointer(i) == PointerAt(AssetOffset(i) + 16)

(* C5: the written file is the assets, layers, keyframes and strings
   sections in that order with nothing between them, the sections start at
   0, assets_size, assets_size + layers_size and assets_size + layers_size +
   keyframes_size, and the assets section is the asset records, 16 zero
   bytes, a pointer equal to the layers base and zero padding that brings
   the pointer block to 16 bytes. *)
C5_SectionsContiguous ==
    EncodeSucceeded =>
      LET sp == encoded.section_pointers
          w == encoded.writers
          assets_size == Len(w.assets_writer)
          layers_size == Len(w.layers_writer)
          keyframes_size == Len(w.keyframes_writer)
          strings_size == Len(w.strings_writer.buffer)
          records == NumAssets * ASSET_SIZE[architecture]
      IN  /\ Out = w.assets_writer \o w.layers_writer
                     \o w.keyframes_writer \o w.strings_writer.buffer
          /\ Len(Out) = assets_size + layers_size + keyframes_size + strings_size
          /\ sp.assets = 0
          /\ sp.layers = assets_size
          /\ sp.keyframes = assets_size + layers_size
          /\ sp.strings = assets_size + layers_size + keyframes_size
          /\ \A i \in 1..NumAssets : AssetSizeField(i) = ASSET_SIZE[architecture]
          /\ assets_size = records + 16 + 16
          /\ ZeroAt(records, 16)
          /\ PointerAt(records + 16) = assets_size
          /\ ZeroAt(records + 16 + POINTER_SIZE[architecture],
                    16 - POINTER_SIZE[architecture])

(* A file of three assets written for the 64-bit layout *)
C5_Witness ==
    /\ EncodeSucceeded
    /\ architecture = "x64"
    /\ NumAssets = 3
    /\ Len(Out) > 3 * 32 + 32

(* C4: whenever the encoder gets to its size check, the four sizes phase 1
   predicted are the lengths of the four buffers phase 2 wrote, in both
   architectures and with repeated names, so the check never raises. *)
C4_PredictedSizesAreWritten ==
    (EncodeRan /\ encoded.phase >= 3) =>
      /\ encoded.section_pointers.assets_size = Len(encoded.writers.assets_writer)
      /\ encoded.section_pointers.layers_size = Len(encoded.writers.layers_writer)
      /\ encoded.section_pointers.keyframes_size = Len(encoded.writers.keyframes_writer)
      /\ encoded.section_pointers.strings_size = Len(encoded.writers.strings_writer.buffer)
      /\ encoded.err # "ValueError"

(* The size check passed for a project in which a texture and a composition
   have the same name *)
C4_Witness ==
    /\ EncodeRan /\ encoded.phase = 4
    /\ Names(Value(project).textures) \cap Names(Value(project).compositions) # {}
    /\ Len(Value(project).textures) = 2

EmptyProject == Project(<<>>, <<>>)

(* C8 as stated: the empty project is written as 32 bytes, 16 zero bytes,
   then the layers base as the little-endian value 16 (a u32 and 12 zero
   bytes for x86, a u64 and 8 zero bytes for x64). *)
C8_EmptyProjectPointer16 ==
    (EncodeRan /\ project = Some(EmptyProject)) =>
      /\ EncodeSucceeded
      /\ architecture = "x86" => Out = Zeros(16) \o << 16, 0, 0, 0 >> \o Zeros(12)
      /\ architecture = "x64" => Out = Zeros(16) \o << 16, 0, 0, 0, 0, 0, 0, 0 >> \o Zeros(8)

(* C8, amended: the empty project is written as 32 bytes, 16 zero bytes,
   then the layers base as the little-endian value 32, the size of the
   assets section (a u32 and 12 zero bytes for x86, a u64 and 8 zero bytes
   for x64). *)
C8_EmptyProjectPointer32 ==
    (EncodeRan /\ project = Some(EmptyProject)) =>
      /\ EncodeSucceeded
      /\ Len(Out) = 32
      /\ architecture = "x86" => Out = Zeros(16) \o << 32, 0, 0, 0 >> \o Zeros(12)
      /\ architecture = "x64" => Out = Zeros(16) \o << 32, 0, 0, 0, 0, 0, 0, 0 >> \o Zeros(8)

(* The empty project written for the 64-bit layout *)
C8_Witness ==
    /\ EncodeSucceeded
    /\ project = Some(EmptyProject)
    /\ architecture = "x64"

OneTextureProject == Project(<< Texture(str_a, 2, 3) >>, <<>>)

(* C9 as stated: the project of the one texture "a", 2 by 3, is written for
   x86 as the 20-byte record {size=20, type=0, name_ptr=0x28, width=2,
   height=3, num_layers=0, layers_ptr=0}, a 20-byte terminator block, which
   makes an assets section of 40 bytes, and the strings "a\0" at 0x28. *)
C9_OneTextureAt0x28 ==
    (EncodeRan /\ project = Some(OneTextureProject) /\ architecture = "x86") =>
      /\ EncodeSucceeded
      /\ SubSeq(Out, 1, 20) = << 20, 0,  0, 0,  40, 0, 0, 0,  2, 0,  3, 0,
                                 0, 0, 0, 0,  0, 0, 0, 0 >>
      /\ Len(encoded.writers.assets_writer) = 40
      /\ ZeroAt(20, 16)
      /\ encoded.section_pointers.strings = 40
      /\ StringAt(40, str_a)
      /\ Len(Out) = 42

(* C9, amended: the project of the one texture "a", 2 by 3, is written for
   x86 as the 20-byte record {size=20, type=0, name_ptr=0x34, width=2,
   height=3, num_layers=0, layers_ptr=0}, a 32-byte terminator block (16
   zero bytes, the layers base 0x34 as a u32, 12 zero bytes), which makes an
   assets section of 52 bytes, and the strings "a\0" at 0x34. *)
C9_OneTextureAt0x34 ==
    (EncodeRan /\ project = Some(OneTextureProject) /\ architecture = "x86") =>
      /\ EncodeSucceeded
      /\ Out = << 20, 0,  0, 0,  52, 0, 0, 0,  2, 0,  3, 0,  0, 0, 0, 0,  0, 0, 0, 0 >>
                 \o Zeros(16) \o << 52, 0, 0, 0 >> \o Zeros(12)
                 \o << 97, 0 >>
      /\ Len(encoded.writers.assets_writer) = 52
      /\ encoded.section_pointers.strings = 52
      /\ Len(Out) = 54

(* The one-texture project written for the 32-bit layout *)
C9_Witness ==
    /\ EncodeSucceeded
    /\ project = Some(OneTextureProject)
    /\ architecture = "x86"
    /\ Len(Out) = 54

--------------------------------------------------------------------------
(* Reading the records of the written file *)

LayersBase == encoded.section_pointers.layers

KeyframesBase == encoded.section_pointers.keyframes

StringsBase == encoded.section_pointers.strings

StringsSection == SubSeq(Out, StringsBase + 1, Len(Out))

(* The NUL-terminated entries of a strings section, in file order *)
Entries(section) ==
    IF section = <<>> THEN <<>>
    ELSE LET parts == split(section, 0) IN SubSeq(parts, 1, Len(parts) - 1)

RECURSIVE EntryOffset(_, _)
EntryOffset(entries, k) ==
    IF k = 1 THEN 0 ELSE EntryOffset(entries, k - 1) + Len(entries[k - 1]) + 1

(* The offset in the section of the first entry equal to name *)
OffsetOf(entries, name) ==
    EntryOffset(entries,
                CHOOSE k \in 1..Len(entries) :
                    entries[k] = name /\ \A j \in 1..(k - 1) : entries[j] # name)

(* <<ci, li>>: layer li of composition ci *)
LayerRefs ==
    UNION { { << ci, li >> : li \in 1..Len(Value(project).compositions[ci].layers) } :
            ci \in 1..Len(Value(project).compositions) }

LayerOf(r) == Value(project).compositions[r[1]].layers[r[2]]

LayersBefore(ci) == Len(Flatten([ cj \in 1..(ci - 1) |-> Value(project).compositions[cj].layers ]))

CompositionLayersPointer(ci) == AssetLayersPointer(Len(Value(project).textures) + ci)

LayerOffset(r) == CompositionLayersPointer(r[1]) + (r[2] - 1) * LAYER_SIZE[architecture]

LayerHeader == IF architecture = "x86" THEN 4 ELSE 8

LayerNamePointer(r) == PointerAt(LayerOffset(r) + LayerHeader)

TimelinePointer(r) == PointerAt(LayerOffset(r) + LayerHeader + POINTER_SIZE[architecture])

(* The pointer in slot s of the eleven that follow the timeline pointer *)
TrackPointer(r, s) ==
    PointerAt(LayerOffset(r) + LayerHeader + (1 + s) * POINTER_SIZE[architecture])

(* <<r, s>>: slot s of layer r has a track *)
TrackRefs ==
    { t \in LayerRefs \X (1..Len(TrackSlots)) :
        /\ TrackSlots[t[2]].kind # "unknown"
        /\ LayerOf(t[1])[TrackSlots[t[2]].track] # None }

TrackOf(t) == Value(LayerOf(t[1])[TrackSlots[t[2]].track])

RecordSize(t) == TrackSlots[t[2]].size[architecture]

MarkerSlot == CHOOSE s \in 1..Len(TrackSlots) : TrackSlots[s].kind = "marker"

(* <<r, k>>: marker k of layer r *)
MarkerRefs ==
    UNION { { << r, k >> : k \in 1..(IF LayerOf(r).markers = None THEN 0
                                     ELSE Len(Value(LayerOf(r).markers))) } :
            r \in LayerRefs }

MarkerNamePointer(m) ==
    PointerAt(TrackPointer(m[1], MarkerSlot)
                + (m[2] - 1) * MARKER_KEYFRAME_SIZE[architecture] + 8)

UsedNames(P) ==
    Names(P.textures) \cup Names(P.compositions)
      \cup { l.name : l \in LayersOf(P) }
      \cup UNION { IF l.markers = None THEN {}
                   ELSE { Value(l.markers)[k].name : k \in 1..Len(Value(l.markers)) } :
                   l \in LayersOf(P) }

(* C3: in a written file every distinct texture, composition, layer or
   marker name is exactly one NUL-terminated entry of the strings section,
   and every name pointer of an asset, layer or marker record is the
   strings base plus the offset at which that name was first written. *)
C3_NamesWrittenOnce ==
    EncodeSucceeded =>
      LET entries == Entries(StringsSection) IN
        /\ StringsSection = <<>> \/ StringsSection[Len(StringsSection)] = 0
        /\ Distinct(entries)
        /\ Range(entries) = UsedNames(Value(project))
        /\ \A i \in 1..NumAssets :
             AssetNamePointer(i) = StringsBase + OffsetOf(entries, AssetAt(i).name)
        /\ \A r \in LayerRefs :
             LayerNamePointer(r) = StringsBase + OffsetOf(entries, LayerOf(r).name)
        /\ \A m \in MarkerRefs :
             MarkerNamePointer(m)
               = StringsBase + OffsetOf(entries, Value(LayerOf(m[1]).markers)[m[2]].name)

(* A file with two strings for three assets: a composition named as the
   first of two textures *)
C3_Witness ==
    /\ EncodeSucceeded
    /\ Len(Value(project).textures) = 2
    /\ Len(Value(project).compositions) = 1
    /\ Value(project).compositions[1].name = Value(project).textures[1].name
    /\ Value(project).textures[2].name # Value(project).textures[1].name
    /\ Len(Entries(StringsSection)) = 2

TimelinePresent(layer) == layer.timeline_start # None

(* The things layer r points to in the keyframes section and in the strings
   section: its name, its timeline and the first record of each track, each
   pointer zero exactly when the thing is absent *)
LayerPointersAddressTargets(r) ==
    LET layer == LayerOf(r)
        timeline == TimelinePointer(r)
    IN  /\ Field(LayerOffset(r), 2) = LAYER_SIZE[architecture]
        /\ LayerNamePointer(r) >= StringsBase
        /\ StringAt(LayerNamePointer(r), layer.name)
        /\ (timeline = 0) <=> ~ TimelinePresent(layer)
        /\ TimelinePresent(layer) =>
             /\ timeline >= KeyframesBase
             /\ timeline + LAYER_TIMELINE_SIZE[architecture] <= StringsBase
             /\ Field(timeline, 2) = LAYER_TIMELINE_SIZE[architecture]
             /\ Field(timeline + 2, 2) = Value(layer.timeline_start)
             /\ Field(timeline + 6, 2) = Value(layer.timeline_duration)
        /\ \A s \in 1..Len(TrackSlots) :
             LET pointer == TrackPointer(r, s) IN
               /\ (pointer # 0) <=> (<< r, s >> \in TrackRefs)
               /\ << r, s >> \in TrackRefs =>
                    /\ pointer >= KeyframesBase
                    /\ pointer + RecordSize(<< r, s >>) <= StringsBase
                    /\ Field(pointer, 2) = RecordSize(<< r, s >>)
                    /\ Field(pointer + 2, 2) = TrackOf(<< r, s >>)[1].frame

NamePointersAddressNames ==
    /\ \A i \in 1..NumAssets :
         /\ AssetNamePointer(i) >= StringsBase
         /\ AssetNamePointer(i) < Len(Out)
         /\ StringAt(AssetNamePointer(i), AssetAt(i).name)
    /\ \A m \in MarkerRefs :
         /\ MarkerNamePointer(m) >= StringsBase
         /\ StringAt(MarkerNamePointer(m), Value(LayerOf(m[1]).markers)[m[2]].name)

(* C6 as stated: in a written file every pointer is zero or an offset
   smaller than the file length that addresses the first byte of its target
   in the right section: a composition's layers pointer its first layer
   record in the layers section, a timeline or track pointer its first
   record in the keyframes section, a name pointer the name in the strings
   section; a pointer is zero exactly when its target is absent. *)
C6_PointersZeroIffAbsent ==
    EncodeSucceeded =>
      /\ NamePointersAddressNames
      /\ \A i \in 1..Len(Value(project).textures) : AssetLayersPointer(i) = 0
      /\ \A ci \in 1..Len(Value(project).compositions) :
           LET pointer == CompositionLayersPointer(ci)
               layers == Value(project).compositions[ci].layers
           IN  /\ (pointer = 0) <=> (layers = <<>>)
               /\ layers # <<>> =>
                    /\ pointer >= LayersBase
                    /\ pointer + LAYER_SIZE[architecture] <= KeyframesBase
                    /\ pointer < Len(Out)
      /\ \A r \in LayerRefs : LayerPointersAddressTargets(r)

(* C6, amended: in a written file a name pointer addresses the first byte
   of the name in the strings section, a texture's layers pointer is zero,
   and a composition's layers pointer is never zero: it is the layers base
   plus the size of the layer records of the compositions before it, which
   addresses its first layer record in the layers section when it has
   layers and the end of those records when it has none. A timeline or
   track pointer
   is zero exactly when its target is absent and otherwise addresses the
   target's first record in the keyframes section. *)
C6_CompositionPointerNeverZero ==
    EncodeSucceeded =>
      /\ NamePointersAddressNames
      /\ \A i \in 1..Len(Value(project).textures) : AssetLayersPointer(i) = 0
      /\ \A ci \in 1..Len(Value(project).compositions) :
           LET pointer == CompositionLayersPointer(ci)
               layers == Value(project).compositions[ci].layers
           IN  /\ pointer # 0
               /\ pointer = LayersBase + LayersBefore(ci) * LAYER_SIZE[architecture]
               /\ pointer <= Len(Out)
               /\ layers # <<>> =>
                    /\ pointer + LAYER_SIZE[architecture] <= KeyframesBase
                    /\ pointer < Len(Out)
      /\ \A r \in LayerRefs : LayerPointersAddressTargets(r)

(* A file with a texture and a composition that has no layers *)
C6_Witness ==
    /\ EncodeSucceeded
    /\ Len(Value(project).textures) = 1
    /\ Len(Value(project).compositions) = 1
    /\ Value(project).compositions[1].layers = <<>>
    /\ CompositionLayersPointer(1) = StringsBase

(* C7: every track of n keyframes of a project whose integers fit their
   fields is written as (n + 1) records of its kind's size in the
   keyframes section: n records with the size field and
   the keyframe's frame, then a sentinel record with the size field, frame
   0xFFFF and a payload of zero bytes. *)
C7_TracksEndWithSentinel ==
    ( EncodeRan /\ FieldsFit(Value(project)) ) =>
      \A t \in TrackRefs :
        LET n == Len(TrackOf(t))
            size == RecordSize(t)
            pointer == TrackPointer(t[1], t[2])
        IN  /\ EncodeSucceeded
            /\ pointer >= KeyframesBase
            /\ pointer + (n + 1) * size <= StringsBase
            /\ \A k \in 1..n :
                 /\ Field(pointer + (k - 1) * size, 2) = size
                 /\ Field(pointer + (k - 1) * size + 2, 2) = TrackOf(t)[k].frame
            /\ Field(pointer + n * size, 2) = size
            /\ Field(pointer + n * size + 2, 2) = 65535
            /\ ZeroAt(pointer + n * size + 4, size - 4)

--------------------------------------------------------------------------
(* The derived asset name *)

(* the substring of a name after its first hyphen *)
AfterFirstHyphen(name) ==
    LET first == CHOOSE k \in 1..Len(name) :
                    name[k] = chr_hyphen /\ \A j \in 1..(k - 1) : name[j] # chr_hyphen
    IN  SubSeq(name, first + 1, Len(name))

(* C11: for every layer of the compositions a Project is constructed from,
   the asset_name the validation looks up is the whole substring after the
   first hyphen of the layer's name when the name contains a hyphen (later
   hyphens included: "L-a-b" gives "a-b"), and the full name otherwise. *)
C11_AssetNameAfterFirstHyphen ==
    pc # "start" =>
      \A l \in LayersOf(Project(textures, compositions)) :
         asset_name(l) = IF chr_hyphen \in Range(l.name)
                         THEN AfterFirstHyphen(l.name)
                         ELSE l.name

--------------------------------------------------------------------------
(* The projects the decoders return.  Under ConvertSpec project holds a
   value exactly when the decoder of the input's format returned it. *)

Tracks(l) == { l[JsonTracks[i].track] : i \in 1..Len(JsonTracks) }

WholeOrAbsent(l) ==
    \/ /\ l.timeline_start = None /\ l.timeline_unknown1 = None
       /\ l.timeline_duration = None /\ l.timeline_unknown2 = None
    \/ /\ l.timeline_start # None /\ l.timeline_unknown1 # None
       /\ l.timeline_duration # None /\ l.timeline_unknown2 # None

(* C12: in every project a decoder returns (binary x86, binary x64 or JSON)
   each layer's timeline_unknown2 is absent or 4096, and an input that holds
   another value for it (4095, say) makes the decode fail instead of
   returning a project. *)
C12_TimelineUnknown2Is4096 ==
    /\ project # None =>
         \A l \in LayersOf(Value(project)) : l.timeline_unknown2 \in { None, Some(4096) }
    /\ ( /\ pc # "input"
         /\ \E l \in LayersOf(input_file.source) :
               l.timeline_unknown2 \notin { None, Some(4096) } )
       => project = None

(* C13: in every project a decoder returns (binary or JSON) the four
   timeline fields of each layer are all null or all non-null, and an input
   in which only some of the four are null is not accepted as a project. *)
C13_TimelineWholeOrAbsent ==
    /\ project # None => \A l \in LayersOf(Value(project)) : WholeOrAbsent(l)
    /\ ( /\ pc # "input"
         /\ \E l \in LayersOf(input_file.source) : ~ WholeOrAbsent(l) )
       => project = None

(* C14: in every project a decoder returns (binary or JSON) each of the ten
   tracks of each layer is absent or a non-empty sequence: an input track of
   no keyframes (a JSON empty array, a binary list whose first record is the
   sentinel) is returned as absent, never as an empty list. *)
C14_TracksAbsentOrNonEmpty ==
    project # None =>
      \A l \in LayersOf(Value(project)) :
        \A track \in Tracks(l) : track = None \/ Value(track) # << >>

(* C15: every keyframe of every track of a project a decoder returns
   (binary or JSON) has a frame in 0..0xFFFE, so that no keyframe the binary
   encoder is given carries the sentinel's frame 0xFFFF. *)
C15_FramesBelowSentinel ==
    project # None =>
      \A l \in LayersOf(Value(project)) :
        \A track \in Tracks(l) :
          track # None =>
            \A k \in 1..Len(Value(track)) : Value(track)[k].frame \in 0..65534

(* C16: in every project a decoder returns (binary or JSON) the names of the
   textures are pairwise distinct and the names of the compositions are
   pairwise distinct. *)
C16_AssetNamesDistinct ==
    project # None =>
      /\ Distinct([ i \in 1..Len(Value(project).textures) |->
                      Value(project).textures[i].name ])
      /\ Distinct([ i \in 1..Len(Value(project).compositions) |->
                      Value(project).compositions[i].name ])

(* C17: JSON decode fails with an error and returns no project whenever a
   texture or composition width or height, a non-null timeline_start,
   timeline_unknown1 or timeline_duration, a keyframe frame or a
   size-keyframe width or height is outside 0..65535, or a non-null
   timeline_unknown2 or a marker unknown is outside 0..2^32-1; so every
   integer of a project the JSON decoder returns fits its field. *)
C17_JsonBoundsChecked ==
    ( input_file.format = "json" /\ pc # "input" ) =>
      /\ ~ FieldsFit(input_file.source) =>
           project = None /\ json_decoded.err = "ValueError"
      /\ project # None => FieldsFit(Value(project))

(* The decode of a document failed whose only integer beyond its field is
   the width 65536 of a size keyframe *)
C17_Witness ==
    /\ pc = "json_decode_failed"
    /\ json_decoded.err = "ValueError"
    /\ \E l \in LayersOf(input_file.source) :
         /\ l.size_keyframes # None
         /\ Value(l.size_keyframes)[1].width = 65536
         /\ Value(l.size_keyframes)[1].height = 2

--------------------------------------------------------------------------
(* The document the JSON encoder writes *)

(* the object stored under a name in the items of a JSON object *)
ObjectOf(items, name) ==
    items[CHOOSE i \in 1..Len(items) : items[i][1] = name][2]

(* C18: the layer object the JSON encoder writes has a track field if and
   only if the track is present in the model (an absent track is omitted,
   not written as null, so a layer decoded from "position_keyframes": []
   is written without that field), and the value of every track field is an
   array of one keyframe object per keyframe of the track, in order, each
   with "frame" and the fields of its variant. *)
C18_JsonTracksEmitted ==
    pc = "json_encoded" =>
      LET P == Value(project) IN
      \A ci \in 1..Len(P.compositions) :
        ( \A cj \in (ci + 1)..Len(P.compositions) :
             P.compositions[cj].name # P.compositions[ci].name )
        => LET c == P.compositions[ci]
               object == ObjectOf(json_file.compositions, c.name)
           IN  \A li \in 1..Len(c.layers) :
                 LET layer == c.layers[li]
                     fields == object.fields.layers.items[li].fields
                 IN  \A i \in 1..Len(JsonTracks) :
                       LET name == JsonTracks[i].track
                           track == layer[name]
                       IN  /\ (name \in DOMAIN fields) <=> (track # None)
                           /\ track # None =>
                                /\ fields[name].t = "list"
                                /\ Len(fields[name].items) = Len(Value(track))
                                /\ \A k \in 1..Len(Value(track)) :
                                     LET item == fields[name].items[k]
                                         variant == json_encode_keyframe(JsonTracks[i].kind,
                                                                         Value(track)[k])
                                     IN  /\ item.t = "dict"
                                         /\ "frame" \in DOMAIN item.fields
                                         /\ item.fields.frame = Value(track)[k].frame
                                         /\ \A f \in DOMAIN variant :
                                              /\ f \in DOMAIN item.fields
                                              /\ item.fields[f] = variant[f]

--------------------------------------------------------------------------
(* Colour keyframes on the wire *)

(* floor(f * 255) of a float f in 0..1 (f is v / 100) *)
Floor255(v) == CHOOSE n \in 0..255 : 100 * n <= 255 * v /\ 255 * v < 100 * (n + 1)

(* the colour track of the first layer of the project the binary decoder
   returned *)
DecodedColours == decoded.project.compositions[1].layers[1].colour_keyframes

(* C19: the binary decoder accepts colour records of 8 or of 20 bytes and
   fails on a record of any other size; a record of 8 bytes decodes to its
   u8 components and a record of 20 bytes with f32 components f in 0..1 to
   the components floor(f * 255), {1.0, 0.5, 0.0, 1.0} to {255, 127, 0,
   255}. The binary encoder's _encode_keyframes writes a colour track whose
   components are bytes as records of 8 bytes (u16 size = 8, u16 frame, u8 r, g, b, a) and a
   sentinel of 8 bytes, and the size calculation counts 8 bytes for each. *)
C19_ColourForms ==
    /\ ( pc # "input" /\ input_file.colours.size # 0 ) =>
         LET form == input_file.colours IN
           /\ ( form.size \notin { 8, 20 } /\ form.keyframes # << >> ) =>
                project = None /\ decoded.err = "ValueError"
           /\ form.size = 8 =>
                /\ project # None
                /\ DecodedColours # None
                /\ Value(DecodedColours) = form.keyframes
           /\ form.size = 20 =>
                /\ project # None
                /\ DecodedColours # None
                /\ Value(DecodedColours) =
                     [ k \in 1..Len(form.keyframes) |->
                         ColourKeyframe(form.keyframes[k].frame,
                                        Floor255(form.keyframes[k].r),
                                        Floor255(form.keyframes[k].g),
                                        Floor255(form.keyframes[k].b),
                                        Floor255(form.keyframes[k].a)) ]
           /\ form.keyframes = << ColourKeyframe(0, 100, 50, 0, 100) >> =>
                Value(DecodedColours) = << ColourKeyframe(0, 255, 127, 0, 255) >>
    /\ project # None =>
         \A l \in LayersOf(Value(project)) : \A arch \in Architecture :
            ( /\ l.colour_keyframes # None
              /\ \A k \in Range(Value(l.colour_keyframes)) :
                   \A v \in { k.r, k.g, k.b, k.a } : ~ to_bytes_overflows(v, 1) ) =>
              /\ _encode_keyframes(Writers, l.colour_keyframes, COLOUR_KEYFRAME_SIZE,
                                   "colour", SectionPointers(0, 0, 0, 0), arch)
                   .st.keyframes_writer
                 = ColourRecords(8, Value(l.colour_keyframes))
              /\ tracks_size(l, arch, 3) - tracks_size(l, arch, 4)
                 = 8 * (Len(Value(l.colour_keyframes)) + 1)

(* The record of 20 bytes {1.0, 0.5, 0.0, 1.0} was decoded to
   {255, 127, 0, 255} *)
C19_Witness ==
    /\ pc = "project"
    /\ input_file.colours = [ size |-> 20,
                              keyframes |-> << ColourKeyframe(0, 100, 50, 0, 100) >> ]
    /\ Value(DecodedColours) = << ColourKeyframe(0, 255, 127, 0, 255) >>

--------------------------------------------------------------------------
(* The order of the records of the written file *)

AssetWidthField(i) == Field(AssetOffset(i) + (IF architecture = "x86" THEN 8 ELSE 12), 2)

AssetHeightField(i) == Field(AssetOffset(i) + (IF architecture = "x86" THEN 10 ELSE 14), 2)

(* The keyframes bytes of the track in slot s of a layer, none when absent *)
TrackBytes(layer, s) ==
    IF TrackSlots[s].kind # "unknown" /\ layer[TrackSlots[s].track] # None
    THEN TrackSlots[s].size[architecture] * (Len(Value(layer[TrackSlots[s].track])) + 1)
    ELSE 0

RECURSIVE TracksBytesBefore(_, _)
TracksBytesBefore(layer, s) ==
    IF s = 1 THEN 0 ELSE TracksBytesBefore(layer, s - 1) + TrackBytes(layer, s - 1)

TimelineBytes(layer) == IF TimelinePresent(layer) THEN LAYER_TIMELINE_SIZE[architecture] ELSE 0

(* The keyframes bytes of a whole layer: its timeline and its tracks *)
LayerKeyframesBytes(layer) ==
    TimelineBytes(layer) + TracksBytesBefore(layer, Len(TrackSlots) + 1)

RECURSIVE SumKeyframesBytes(_)
SumKeyframesBytes(layers) ==
    IF layers = <<>> THEN 0
    ELSE LayerKeyframesBytes(Head(layers)) + SumKeyframesBytes(Tail(layers))

(* The layers written before layer r: those of the earlier compositions and
   the earlier ones of its own *)
LayersWrittenBefore(r) ==
    Flatten([ cj \in 1..(r[1] - 1) |-> Value(project).compositions[cj].layers ])
      \o SubSeq(Value(project).compositions[r[1]].layers, 1, r[2] - 1)

(* C20: the records of a written file are in a fixed order.  Asset record i
   is texture i for the textures in sequence order and then the
   compositions in sequence order; the layer records are the layers of the
   compositions in composition order and layer order; in the keyframes
   section each layer, in that order, has its timeline record (if present)
   and then its present tracks in the slot order position, anchor point,
   colour, scale, alpha, rotation x, y, z, size, marker, one after the
   other, so the offsets of successive records increase. *)
C20_RecordsInOrder ==
    EncodeSucceeded =>
      /\ \A i \in 1..NumAssets :
           /\ AssetTypeField(i) = IF i <= Len(Value(project).textures)
                                  THEN AssetType.TEXTURE ELSE AssetType.COMPOSITION
           /\ AssetWidthField(i) = AssetAt(i).width
           /\ AssetHeightField(i) = AssetAt(i).height
           /\ StringAt(AssetNamePointer(i), AssetAt(i).name)
      /\ \A r \in LayerRefs :
           LET layer == LayerOf(r)
               before == LayersWrittenBefore(r)
               keyframes == KeyframesBase + SumKeyframesBytes(before)
           IN  /\ LayerOffset(r) = LayersBase + Len(before) * LAYER_SIZE[architecture]
               /\ Field(LayerOffset(r), 2) = LAYER_SIZE[architecture]
               /\ Field(LayerOffset(r) + 2, 1)
                    = LAYER_TYPES[layer.type] * 16 + BLEND_MODES[layer.blend_mode]
               /\ StringAt(LayerNamePointer(r), layer.name)
               /\ TimelinePresent(layer) => TimelinePointer(r) = keyframes
               /\ \A s \in 1..Len(TrackSlots) :
                    TrackBytes(layer, s) > 0 =>
                      TrackPointer(r, s)
                        = keyframes + TimelineBytes(layer) + TracksBytesBefore(layer, s)

(* A file was written for two textures of different names and sizes and a
   composition *)
C20_Witness ==
    /\ EncodeSucceeded
    /\ Len(Value(project).textures) = 2
    /\ Value(project).textures[1].name # Value(project).textures[2].name
    /\ Len(Value(project).compositions) = 1
    /\ AssetWidthField(2) = 300

--------------------------------------------------------------------------
(* The unknown keyframes slot of the layer record *)

(* The pointers in the unknown slots of the layer records of a binary input
   whose records lie where the encoder puts them *)
UnknownSlotPointers(input) ==
    { read_pointer(input.file,
                   LayerPointerOffset(input.file, input.source, input.format, k, 6),
                   input.format).value :
        k \in 1..(IF input.source.compositions = << >> THEN 0
                  ELSE Len(input.source.compositions[1].layers)) }

(* The bytes of the unknown slot in the pointers _encode_layer writes for
   the tracks of a layer *)
WrittenUnknownSlot(layer, arch) ==
    SubSeq(encode_tracks(Writers, layer, 1, SectionPointers(0, 0, 0, 0), arch).layers_writer,
           5 * POINTER_SIZE[arch] + 1, 6 * POINTER_SIZE[arch])

(* C21: the unknown keyframes slot is null on read and on write.  The
   binary decoder fails with an error and returns no project for a file
   with a layer record whose unknown slot is not zero, and the pointers the
   binary encoder's _encode_layer writes for the tracks of any layer have
   zero in the unknown slot. *)
C21_UnknownSlotNull ==
    /\ ( /\ pc # "input"
         /\ input_file.format \in Architecture
         /\ input_file.damage \in { "none", "unknown slot" }
         /\ input_file.colours = NoColourForm
         /\ UnknownSlotPointers(input_file) # {}
         /\ UnknownSlotPointers(input_file) # { 0 } ) =>
           /\ decoded.err \notin { "", "NonTermination" }
           /\ project = None
    /\ project # None =>
         \A l \in LayersOf(Value(project)) : \A arch \in Architecture :
            WrittenUnknownSlot(l, arch) = Zeros(POINTER_SIZE[arch])

(* The decoder read a file whose layer has every track and a pointer in the
   unknown slot, and failed *)
C21_Witness ==
    /\ pc = "decode_failed"
    /\ input_file.damage = "unknown slot"
    /\ input_file.source.compositions[1].layers[1].markers # None
    /\ input_file.source.compositions[1].layers[1].position_keyframes # None
    /\ decoded.err = "ValueError"

--------------------------------------------------------------------------
(* The timeline group of a layer in the written file *)

(* C22: binary encode completes without error for every project whose
   integers fit their fields, its layers with a timeline and those
   without.  For a layer with a timeline
   the keyframes section holds one record of 12 bytes {size = 12, start,
   unknown1, duration, unknown2} before any track of that layer, the
   timeline pointer of the layer record is the keyframes base plus the
   offset of that record, and phase 1 counts 12 bytes for it; for a layer
   without one the timeline pointer is zero, no record is written and
   nothing is counted. *)
C22_TimelineGroupEncoded ==
    ( EncodeRan /\ FieldsFit(Value(project)) ) =>
      /\ encoded.err = ""
      /\ encoded.section_pointers.keyframes_size
           = SumKeyframesBytes(Flatten([ ci \in 1..Len(Value(project).compositions) |->
                                           Value(project).compositions[ci].layers ]))
      /\ Len(encoded.writers.keyframes_writer) = encoded.section_pointers.keyframes_size
      /\ \A r \in LayerRefs :
           LET layer == LayerOf(r)
               record == KeyframesBase + SumKeyframesBytes(LayersWrittenBefore(r))
           IN  IF TimelinePresent(layer)
               THEN /\ TimelineBytes(layer) = 12
                    /\ TimelinePointer(r) = record
                    /\ Field(record, 2) = 12
                    /\ Field(record + 2, 2) = Value(layer.timeline_start)
                    /\ Field(record + 4, 2) = Value(layer.timeline_unknown1)
                    /\ Field(record + 6, 2) = Value(layer.timeline_duration)
                    /\ Field(record + 8, 4) = Value(layer.timeline_unknown2)
                    /\ \A s \in 1..Len(TrackSlots) :
                         TrackBytes(layer, s) > 0 => TrackPointer(r, s) >= record + 12
               ELSE /\ TimelineBytes(layer) = 0
                    /\ TimelinePointer(r) = 0

--------------------------------------------------------------------------
(* read_string and the cursor *)

(* the bytes from offset off up to but excluding the first NUL; all of
   them when there is no NUL *)
RECURSIVE UpToNul(_, _)
UpToNul(file, off) ==
    IF off >= Len(file) \/ file[off + 1] = 0 THEN << >>
    ELSE << file[off + 1] >> \o UpToNul(file, off + 1)

(* the pointer a reader has at its cursor: the little-endian integer of the
   bytes the file holds there, at most one pointer width of them *)
PointerOf(r) ==
    from_bytes(SubSeq(r.file, r.start + 1,
                      Min(r.start + POINTER_SIZE[r.architecture], Len(r.file))))

(* C23: read_string returns, with the cursor exactly one pointer width (4
   bytes on x86, 8 on x64) past its position before the call, whatever
   offset the pointer addresses and however long the string is, and what it
   returns is the bytes from the addressed offset up to but excluding the
   first NUL. *)
C23_ReadStringCursor ==
    reader.result # NotCalled =>
      /\ reader.result.err = ""
      /\ reader.cursor = reader.start + POINTER_SIZE[reader.architecture]
      /\ reader.result.value = UpToNul(reader.file, PointerOf(reader))

--------------------------------------------------------------------------
(* Termination of the binary decoder *)

(* C24: binary decode of any file, on either architecture, terminates: it
   returns a project or raises an error.  In particular it raises an error
   when a name pointer addresses bytes with no NUL before the end of the
   file, when a keyframe list has no sentinel before the end of the file
   and when the asset records are not followed by the terminator of 16
   NULs. *)
C24_DecodeTerminates ==
    decoded # NotRun =>
      /\ decoded.err # "NonTermination"
      /\ input_file.damage \in { "no nul", "no sentinel", "no terminator" } =>
           decoded.err # ""

--------------------------------------------------------------------------
(* What reaches the output file *)

(* C25: binary encode writes to the output file all or nothing.  When
   encode raises, at whatever step, the file has received no byte; a byte
   is in the file only after the four section buffers were built and the
   four size checks passed, and the file then holds exactly the assets,
   layers, keyframes and strings buffers in this order. *)
C25_AllOrNothing ==
    EncodeRan =>
      /\ encoded.err # "" => Out = << >>
      /\ Out # << >> => encoded.err = "" /\ sizes_match(encoded.writers,
                                                        encoded.section_pointers)
      /\ encoded.err = "" =>
           Out = encoded.writers.assets_writer \o encoded.writers.layers_writer
                   \o encoded.writers.keyframes_writer
                   \o encoded.writers.strings_writer.buffer

(* Encode raised on the width of the second texture, after the record of
   the first and both names were in the buffers, and the file is empty *)
C25_Witness ==
    /\ encoded.err = "OverflowError"
    /\ Len(Value(project).textures) = 2
    /\ Len(encoded.writers.assets_writer) > ASSET_SIZE[architecture]
    /\ Len(encoded.writers.strings_writer.buffer) = 4
    /\ Out = << >>

--------------------------------------------------------------------------
(* The range of the colour components *)

(* the colour keyframes of the project a decoder returned *)
ColourKeyframesOf(P) ==
    UNION { Range(Value(l.colour_keyframes)) :
              l \in { m \in LayersOf(P) : m.colour_keyframes # None } }

(* C26: every colour keyframe of a project a decoder returned, from binary
   records of 8 bytes, binary records of 20 bytes or a JSON rgba string, has
   r, g, b and a in 0..255, so that the binary encoder's write_u8 takes
   each of them and the JSON encoder's rgba string is '#' and exactly eight
   hex digits. *)
C26_ColourComponentsAreBytes ==
    project # None =>
      \A k \in ColourKeyframesOf(Value(project)) :
         /\ k.r \in 0..255 /\ k.g \in 0..255 /\ k.b \in 0..255 /\ k.a \in 0..255
         /\ \A v \in { k.r, k.g, k.b, k.a } : ~ to_bytes_overflows(v, 1)
         /\ Len(json_encode_keyframe("colour", k).rgba) = 9

====
